---- MODULE Spec2Model ----
(***************************************************************************)
(* Connection-lifecycle glue of the three WhatsApp REST facades:           *)
(*   "mongo"   src/api/index.js lines 1-481   (serverless handler, MongoDB *)
(*             credential store, initWhatsApp)                             *)
(*   "express" src/api/index.js lines 483-1092 (Express server, auth       *)
(*             folder, connectToWhatsApp with retry counter)               *)
(*   "tmp"     src/unnamed/part_000 (serverless handler, /tmp auth folder, *)
(*             connectToWhatsApp returning a Promise, keepAlive)           *)
(* The protocol library (makeWASocket) is the environment: a socket emits  *)
(* pairing (qr), open, close and creds.update signals.  Every action is    *)
(* one run of the event loop: a handler from its start, or from the        *)
(* completion of an awaited I/O, up to its next await on I/O.              *)
(***************************************************************************)
EXTENDS Integers, FiniteSets, Sequences, TLC

\* ---------------------------------------------------------------- bounds
MaxSockets == 2      \* socket identities in use at once
MaxTasks == 1        \* async invocations (requests, timer callbacks) waiting on I/O at once
MaxTimers == 2       \* reconnect timers pending at once
MaxAttempts == 4     \* cap of the Express retry counter in the model

\* ------------------------------------------------------ program constants
MAX_RETRY_ATTEMPTS == 3    \* src/api/index.js:502
CONNECTION_TIMEOUT == 5    \* src/unnamed/part_000:12: 5 * 60 * 1000 ms, counted in minutes

Variants == {"mongo", "express", "tmp"}
Socks == 1..MaxSockets
Tasks == 1..MaxTasks

\* ------------------------------------------- the Mongo key store, its data
\* The categories and ids of the key material, as their characters: two of
\* each, one with the hyphen that the document key puts between them.
Categories == {<<"a">>, <<"a", "-", "b">>}
Ids == {<<"c">>, <<"b", "-", "c">>}
Pairs == Categories \X Ids

\* const key = `${type}-${id}` and `${category}-${id}` (lines 52, 60)
KeyOf(category, id) == category \o <<"-">> \o id
DocKeys == {KeyOf(p[1], p[2]) : p \in Pairs}

\* The values keys.set is given: null, an empty one and two that are not.
Values == {"null", "", "x", "y"}

\* if (value) of keys.get (line 54)
Truthy(v) == v \notin {"null", ""}

\* No document in the collection; no keys.get made yet.
EmptyCollection == [k \in DocKeys |-> "absent"]
NoData == [type |-> <<>>, ids |-> {}, result |-> <<>>]

VARIABLES
    variant,             \* which of the three programs runs
    sock,                \* the shared socket reference: 0 is null/undefined
    isConnected,         \* the connected flag
    qrCode,              \* qrCodeData / currentQR / qrCode: 0 (null) or the socket that issued it
    qrGenerated,         \* express only
    connectionAttempts,  \* express only: the retry counter
    inactive,            \* tmp only: Date.now() - lastActivity in minutes, saturating
    creds,               \* the credential store holds a Credential Record
    sockets,             \* the protocol library's sockets, by identity
    pendingRender,       \* mongo: sockets whose qrcode.toDataURL(qr) is awaited
    timers,              \* setTimeout callbacks pending that call initWhatsApp / connectToWhatsApp
    tasks,               \* async invocations waiting on I/O
    wiped,               \* history: a retry-exhausted wipe happened and no open signal since
    sinceRequest,        \* history, tmp: minutes since a request was last handled, saturating
    phone,               \* the argument of a call of formatPhoneNumber, a string as its characters
    formatted,           \* the value that call returned
    proc,                \* express: the process runs, awaits sock.end() of shutdown, or has exited
    collection,          \* mongo: the key documents of collection auth_state, by their key
    written,             \* history, mongo: what keys.set last wrote under a category and id
    data,                \* mongo: the object the last keys.get returned, with its arguments
    last                 \* history: the step just taken and, for a request answered, the response

vars == <<variant, sock, isConnected, qrCode, qrGenerated, connectionAttempts,
          inactive, creds, sockets, pendingRender, timers, tasks, wiped,
          sinceRequest, phone, formatted, proc, collection, written, data, last>>

\* ------------------------------------------------------------- the sockets
\* me: the socket's auth state holds registered credentials (sock.user is set).
NoSocket == [st |-> "none", me |-> FALSE]
IdleTask == [kind |-> "idle", pc |-> "idle", s |-> 0, disc0 |-> FALSE]

\* A socket made by makeWASocket that has neither closed nor been ended.
Live(s) == sockets[s].st \in {"connecting", "pairing", "open"}
LiveSockets == {s \in Socks : Live(s)}

\* An identity the next makeWASocket can take.
CanCreate == \E s \in Socks : sockets[s].st = "none"
NewSock == CHOOSE s \in Socks : sockets[s].st = "none" /\ \A u \in Socks : sockets[u].st = "none" => s <= u

\* makeWASocket({auth: state}): state is what the store held when it was loaded.
makeWASocket(s) ==
    [sockets EXCEPT ![s] = [st |-> "connecting", me |-> creds]]

\* sock.end(): the library closes the socket; its close signal (no error, so
\* no logged-out status code) is delivered to the registered handler afterwards.
EndSocket(s) ==
    IF s # 0 /\ Live(s) THEN [sockets EXCEPT ![s].st = "ended"] ELSE sockets

\* A closed socket nothing refers to any more is garbage: its identity is free
\* again.  socks, sk, qr, pr, tk are the values after the step.
Collect(socks, sk, qr, pr, tk) ==
    [s \in Socks |->
        IF /\ socks[s].st = "closed"
           /\ sk # s /\ qr # s /\ s \notin pr
           /\ \A t \in Tasks : tk[t].s # s
        THEN NoSocket
        ELSE socks[s]]

FreeSlot(t) ==
    /\ tasks[t].kind = "idle"
    /\ \A u \in Tasks : u < t => tasks[u].kind # "idle"

\* ------------------------------------------------------------ the responses
\* op and detail name the step.  code 0: no response was sent in the step.
\* success is the JSON body's success field: "true", "false", or "absent".
\* route and result: a request that waited on a connection attempt was answered
\* in the step of a signal or of the timeout (tmp).  delay: the milliseconds
\* given to the setTimeout of a close handler, -1 when it set no timer.
\* ended: keepAlive ended the session at the start of this request (tmp).
\* result is also what sock.onWhatsApp answered in the step that received it.
\* valid: FALSE in the step of a send request that lacked phone or message.
\* message: the body of the response carries an error or a message text that
\* explains a failure.
Step(op, detail) ==
    [op |-> op, code |-> 0, success |-> "absent", connected |-> FALSE,
     qrAvailable |-> FALSE, botNumber |-> FALSE, detail |-> detail, disc0 |-> FALSE,
     route |-> "", result |-> "", delay |-> -1, ended |-> FALSE,
     valid |-> TRUE, message |-> FALSE, wrote |-> {}]

\* res.status(code).json({success, ...}): every body the handlers build with
\* success: false has an error or a message text next to it.
Resp(op, code, success, detail) ==
    [Step(op, detail) EXCEPT !.code = code, !.success = success,
                             !.message = (success = "false")]

\* SendResp whose body says success: true whatever the outcome.
SendResp_Succeeds(code, success, detail, d0) ==
    [Resp("send", code, "true", detail) EXCEPT !.disc0 = d0]

\* The responses of the send routes.
SendResp(code, success, detail, d0) ==
    [Resp("send", code, success, detail) EXCEPT !.disc0 = d0]

\* !isConnected || !sock: what the send routes test, and what a request is
\* recorded to have found when it was received (disc0).
Disconnected == ~isConnected \/ sock = 0

\* botNumber: sock?.user?.id ? ... : null
BotNumber == sock # 0 /\ sockets[sock].me

TypeOK ==
    /\ variant \in Variants
    /\ sock \in 0..MaxSockets
    /\ isConnected \in BOOLEAN
    /\ qrCode \in 0..MaxSockets
    /\ qrGenerated \in BOOLEAN
    /\ connectionAttempts \in 0..MaxAttempts
    /\ inactive \in 0..(CONNECTION_TIMEOUT + 1)
    /\ creds \in BOOLEAN
    /\ pendingRender \subseteq Socks
    /\ timers \in 0..MaxTimers
    /\ wiped \in BOOLEAN
    /\ sinceRequest \in 0..(CONNECTION_TIMEOUT + 1)
    /\ proc \in {"running", "ended", "endThrew", "exit0"}
    /\ \A s \in Socks : sockets[s].st \in {"none", "connecting", "pairing", "open", "ended", "closed"}
    /\ \A t \in Tasks : tasks[t].kind \in {"idle", "auto", "qr", "send", "connect"}

\* ------------------------------------------------------------------- Init
\* Module load.  The store may hold a Credential Record of an earlier run.  The
\* Express server has run its listen callback, which calls connectToWhatsApp()
\* (lines 1076-1087): the counter is 1 and the version fetch is awaited.
Init ==
    /\ variant \in Variants
    /\ sock = 0
    /\ isConnected = FALSE
    /\ qrCode = 0
    /\ qrGenerated = FALSE
    /\ connectionAttempts = IF variant = "express" THEN 1 ELSE 0
    /\ inactive = 0
    /\ creds \in BOOLEAN
    /\ sockets = [s \in Socks |-> NoSocket]
    /\ pendingRender = {}
    /\ timers = 0
    /\ tasks = [t \in Tasks |->
                  IF variant = "express" /\ t = 1
                  THEN [IdleTask EXCEPT !.kind = "auto", !.pc = "init"]
                  ELSE IdleTask]
    /\ wiped = FALSE
    /\ sinceRequest = 0
    /\ phone = <<>>
    /\ formatted = <<>>
    /\ proc = "running"
    /\ collection = EmptyCollection
    /\ written = [p \in Pairs |-> "never"]
    /\ data = NoData
    /\ last = Step("init", "")

\* ======================================================================
\* The Mongo variant (src/api/index.js 1-481)
\* ======================================================================

\* initWhatsApp() from its call, past the guard of line 81, to its awaits: the
\* version fetch and the load of the auth state are awaited by task t.
MongoInitCall(t, kind, d0) ==
    tasks' = [tasks EXCEPT ![t] = [kind |-> kind, pc |-> "init", s |-> 0, disc0 |-> d0]]

\* MongoQrResponse that looks at the connected flag before the artifact.
MongoQrResponse_ConnectedFirst ==
    IF qrCode # 0 /\ ~isConnected
    THEN [Resp("qr", 200, "true", "") EXCEPT !.qrAvailable = TRUE]
    ELSE [Resp("qr", 200, "false", "") EXCEPT !.connected = isConnected]

\* GET /qr: the response of lines 175-193.
MongoQrResponse ==
    IF qrCode # 0
    THEN [Resp("qr", 200, "true", "") EXCEPT !.qrAvailable = TRUE]
    ELSE [Resp("qr", 200, "false", "") EXCEPT !.connected = isConnected]

\* GET /qr
MongoQr(t) ==
    /\ variant = "mongo"
    /\ IF sock = 0 \/ ~isConnected
       THEN /\ FreeSlot(t)
            /\ MongoInitCall(t, "qr", FALSE)
            /\ last' = Step("step", "")
       ELSE /\ t = 1
            /\ last' = MongoQrResponse
            /\ UNCHANGED tasks
    /\ UNCHANGED <<variant, collection, written, data, proc, phone, formatted, sinceRequest, sock, isConnected, qrCode, qrGenerated, connectionAttempts,
                   inactive, creds, sockets, pendingRender, timers, wiped>>

\* MongoStatus that discards the pairing artifact it reports.
MongoStatus_DropsArtifact ==
    /\ variant = "mongo"
    /\ last' = [Resp("status", 200, "absent", "") EXCEPT
                  !.connected = isConnected,
                  !.qrAvailable = (qrCode # 0),
                  !.botNumber = BotNumber]
    /\ qrCode' = 0
    /\ UNCHANGED <<variant, collection, written, data, proc, phone, formatted, sinceRequest, sock, isConnected, qrGenerated, connectionAttempts,
                   inactive, creds, sockets, pendingRender, timers, tasks, wiped>>

\* GET /status (lines 197-205).  connected: the body's status field is
\* 'connected'; this variant's body has no field named connected.
MongoStatus ==
    /\ variant = "mongo"
    /\ last' = [Resp("status", 200, "absent", "") EXCEPT
                  !.connected = isConnected,
                  !.qrAvailable = (qrCode # 0),
                  !.botNumber = BotNumber]
    /\ UNCHANGED <<variant, collection, written, data, proc, phone, formatted, sinceRequest, sock, isConnected, qrCode, qrGenerated, connectionAttempts,
                   inactive, creds, sockets, pendingRender, timers, tasks, wiped>>

\* MongoSend that looks at the connection before it looks at the fields.
MongoSend_ConnectsFirst(t, valid) ==
    /\ variant = "mongo"
    /\ IF ~isConnected \/ sock = 0
       THEN /\ FreeSlot(t)
            /\ MongoInitCall(t, "send", Disconnected)
            /\ last' = [Step("step", "") EXCEPT !.op = "send", !.valid = valid]
       ELSE IF ~valid
       THEN /\ t = 1
            /\ last' = [SendResp(400, "false", "validation", Disconnected) EXCEPT !.valid = FALSE]
            /\ UNCHANGED tasks
       ELSE /\ FreeSlot(t)
            /\ tasks' = [tasks EXCEPT ![t] =
                           [kind |-> "send", pc |-> "lookup", s |-> sock,
                            disc0 |-> Disconnected]]
            /\ last' = Step("step", "")
    /\ UNCHANGED <<variant, collection, written, data, proc, phone, formatted, sinceRequest, sock, isConnected, qrCode, qrGenerated, connectionAttempts,
                   inactive, creds, sockets, pendingRender, timers, wiped>>

\* POST /send-message, from the request to its first await.
MongoSend(t, valid) ==
    /\ variant = "mongo"
    /\ IF ~valid
       THEN /\ t = 1
            /\ last' = [SendResp(400, "false", "validation", Disconnected) EXCEPT !.valid = FALSE]
            /\ UNCHANGED tasks
       ELSE IF ~isConnected \/ sock = 0
       THEN /\ FreeSlot(t)
            /\ MongoInitCall(t, "send", Disconnected)
            /\ last' = Step("step", "")
       ELSE /\ FreeSlot(t)
            /\ tasks' = [tasks EXCEPT ![t] =
                           [kind |-> "send", pc |-> "lookup", s |-> sock,
                            disc0 |-> Disconnected]]
            /\ last' = Step("step", "")
    /\ UNCHANGED <<variant, collection, written, data, proc, phone, formatted, sinceRequest, sock, isConnected, qrCode, qrGenerated, connectionAttempts,
                   inactive, creds, sockets, pendingRender, timers, wiped>>

\* setTimeout(() => initWhatsApp(), 5000) fires (line 118).
MongoTimerFire(t) ==
    /\ variant = "mongo"
    /\ timers > 0
    /\ timers' = timers - 1
    /\ IF sock # 0 /\ isConnected
       THEN /\ t = 1
            /\ UNCHANGED tasks
            /\ last' = Step("timer", "existing")
       ELSE /\ FreeSlot(t)
            /\ MongoInitCall(t, "auto", FALSE)
            /\ last' = Step("timer", "init")
    /\ UNCHANGED <<variant, collection, written, data, proc, phone, formatted, sinceRequest, sock, isConnected, qrCode, qrGenerated, connectionAttempts,
                   inactive, creds, sockets, pendingRender, wiped>>

\* MongoInitDone that keeps a socket the shared reference already holds.
MongoInitDone_KeepsFirst(t) ==
    /\ variant = "mongo"
    /\ tasks[t].pc = "init"
    /\ CanCreate
    /\ sock' = IF sock # 0 THEN sock ELSE NewSock
    /\ CASE tasks[t].kind = "qr" ->
              /\ tasks' = [tasks EXCEPT ![t] = IdleTask]
              /\ last' = MongoQrResponse
         [] tasks[t].kind = "send" ->
              IF ~isConnected
              THEN /\ tasks' = [tasks EXCEPT ![t] = IdleTask]
                   /\ last' = SendResp(503, "false", "notConnected", tasks[t].disc0)
              ELSE /\ tasks' = [tasks EXCEPT ![t].pc = "lookup", ![t].s = NewSock]
                   /\ last' = Step("step", "")
         [] OTHER ->
              /\ tasks' = [tasks EXCEPT ![t] = IdleTask]
              /\ last' = Step("step", "")
    /\ UNCHANGED <<variant, collection, written, data, proc, phone, formatted, sinceRequest, isConnected, qrCode, qrGenerated, connectionAttempts,
                   inactive, creds, pendingRender, timers, wiped>>
    /\ sockets' = Collect(makeWASocket(NewSock), sock', qrCode', pendingRender', tasks')

\* The version and the auth state arrived: makeWASocket, the handlers are
\* registered, initWhatsApp returns and its caller runs on to its response or
\* to its next await (lines 86-129, 175-193, 222-235).
MongoInitDone(t) ==
    /\ variant = "mongo"
    /\ tasks[t].pc = "init"
    /\ CanCreate
    /\ sock' = NewSock
    /\ CASE tasks[t].kind = "qr" ->
              /\ tasks' = [tasks EXCEPT ![t] = IdleTask]
              /\ last' = MongoQrResponse
         [] tasks[t].kind = "send" ->
              IF ~isConnected
              THEN /\ tasks' = [tasks EXCEPT ![t] = IdleTask]
                   /\ last' = SendResp(503, "false", "notConnected", tasks[t].disc0)
              ELSE /\ tasks' = [tasks EXCEPT ![t].pc = "lookup", ![t].s = NewSock]
                   /\ last' = Step("step", "")
         [] OTHER ->
              /\ tasks' = [tasks EXCEPT ![t] = IdleTask]
              /\ last' = Step("step", "")
    /\ UNCHANGED <<variant, collection, written, data, proc, phone, formatted, sinceRequest, isConnected, qrCode, qrGenerated, connectionAttempts,
                   inactive, creds, pendingRender, timers, wiped>>
    /\ sockets' = Collect(makeWASocket(NewSock), sock', qrCode', pendingRender', tasks')

\* The version fetch or the store throws: initWhatsApp rethrows (line 132), the
\* handler's catch answers 500 (lines 272-278); a timer's call has no caller.
MongoInitFail(t) ==
    /\ variant = "mongo"
    /\ tasks[t].pc = "init"
    /\ tasks' = [tasks EXCEPT ![t] = IdleTask]
    /\ last' = CASE tasks[t].kind = "qr" -> Resp("qr", 500, "false", "error")
                 [] tasks[t].kind = "send" -> SendResp(500, "false", "initError", tasks[t].disc0)
                 [] OTHER -> Step("step", "")
    /\ UNCHANGED <<variant, collection, written, data, proc, phone, formatted, sinceRequest, sock, isConnected, qrCode, qrGenerated, connectionAttempts,
                   inactive, creds, sockets, pendingRender, timers, wiped>>

\* sock.onWhatsApp(jid) answered (lines 235-245); sock.sendMessage is called on
\* the shared reference as it is now.
MongoLookupDone(t, outcome) ==
    /\ variant = "mongo"
    /\ tasks[t].pc = "lookup"
    /\ CASE outcome = "exists" /\ sock # 0 ->
              /\ tasks' = [tasks EXCEPT ![t].pc = "dispatch", ![t].s = sock]
              /\ last' = [Step("step", "") EXCEPT !.result = outcome]
         [] outcome = "exists" /\ sock = 0 ->
              /\ tasks' = [tasks EXCEPT ![t] = IdleTask]
              /\ last' = [SendResp(500, "false", "error", tasks[t].disc0) EXCEPT !.result = outcome]
         [] outcome = "missing" ->
              /\ tasks' = [tasks EXCEPT ![t] = IdleTask]
              /\ last' = [SendResp(404, "false", "notFound", tasks[t].disc0) EXCEPT !.result = outcome]
         [] OTHER ->
              /\ tasks' = [tasks EXCEPT ![t] = IdleTask]
              /\ last' = [SendResp(500, "false", "error", tasks[t].disc0) EXCEPT !.result = outcome]
    /\ UNCHANGED <<variant, collection, written, data, proc, phone, formatted, sinceRequest, sock, isConnected, qrCode, qrGenerated, connectionAttempts,
                   inactive, creds, pendingRender, timers, wiped>>
    /\ sockets' = Collect(sockets, sock', qrCode', pendingRender', tasks')

\* sock.sendMessage(jid, ...) answered (lines 245-253).
MongoDispatchDone(t, ok) ==
    /\ variant = "mongo"
    /\ tasks[t].pc = "dispatch"
    /\ tasks' = [tasks EXCEPT ![t] = IdleTask]
    /\ last' = IF ok THEN SendResp(200, "true", "sent", tasks[t].disc0)
                     ELSE SendResp(500, "false", "error", tasks[t].disc0)
    /\ UNCHANGED <<variant, collection, written, data, proc, phone, formatted, sinceRequest, sock, isConnected, qrCode, qrGenerated, connectionAttempts,
                   inactive, creds, pendingRender, timers, wiped>>
    /\ sockets' = Collect(sockets, sock', qrCode', pendingRender', tasks')

\* ---- the connection.update and creds.update handlers of initWhatsApp ----

\* A pairing signal {qr}: the handler awaits qrcode.toDataURL(qr) (line 106).
MongoQrSignal(s) ==
    /\ variant = "mongo"
    /\ sockets[s].st \in {"connecting", "pairing"}
    /\ ~sockets[s].me
    /\ sockets' = [sockets EXCEPT ![s].st = "pairing"]
    /\ pendingRender' = pendingRender \cup {s}
    /\ last' = Step("step", "")
    /\ UNCHANGED <<variant, collection, written, data, proc, phone, formatted, sinceRequest, sock, isConnected, qrCode, qrGenerated, connectionAttempts,
                   inactive, creds, timers, tasks, wiped>>

\* toDataURL resolved: qrCodeData is assigned; the update held no connection field.
MongoRenderDone(s) ==
    /\ variant = "mongo"
    /\ s \in pendingRender
    /\ pendingRender' = pendingRender \ {s}
    /\ qrCode' = s
    /\ last' = Step("step", "")
    /\ UNCHANGED <<variant, collection, written, data, proc, phone, formatted, sinceRequest, sock, isConnected, qrGenerated, connectionAttempts,
                   inactive, creds, timers, tasks, wiped>>
    /\ sockets' = Collect(sockets, sock', qrCode', pendingRender', tasks')

\* MongoClose that leaves the connected flag as it is.
MongoClose_KeepsFlag(s, reason) ==
    /\ variant = "mongo"
    /\ Live(s)
    /\ UNCHANGED isConnected
    /\ sock' = 0
    /\ IF reason # "loggedOut"
       THEN /\ timers < MaxTimers
            /\ timers' = timers + 1
            /\ last' = [Step("close", "retry") EXCEPT !.delay = 5000]
       ELSE /\ UNCHANGED timers
            /\ last' = Step("close", "loggedOut")
    /\ UNCHANGED <<variant, collection, written, data, proc, phone, formatted, sinceRequest, qrCode, qrGenerated, connectionAttempts,
                   inactive, creds, pendingRender, tasks, wiped>>
    /\ sockets' = Collect([sockets EXCEPT ![s].st = "closed"],
                          sock', qrCode', pendingRender', tasks')

\* connection === 'close' (lines 110-119).
MongoClose(s, reason) ==
    /\ variant = "mongo"
    /\ Live(s)
    /\ isConnected' = FALSE
    /\ sock' = 0
    /\ IF reason # "loggedOut"
       THEN /\ timers < MaxTimers
            /\ timers' = timers + 1
            /\ last' = [Step("close", "retry") EXCEPT !.delay = 5000]
       ELSE /\ UNCHANGED timers
            /\ last' = Step("close", "loggedOut")
    /\ UNCHANGED <<variant, collection, written, data, proc, phone, formatted, sinceRequest, qrCode, qrGenerated, connectionAttempts,
                   inactive, creds, pendingRender, tasks, wiped>>
    /\ sockets' = Collect([sockets EXCEPT ![s].st = "closed"],
                          sock', qrCode', pendingRender', tasks')

\* connection === 'open' (lines 120-124).
MongoOpen(s) ==
    /\ variant = "mongo"
    /\ \/ sockets[s].st = "connecting" /\ sockets[s].me
       \/ sockets[s].st = "pairing"
    /\ isConnected' = TRUE
    /\ qrCode' = 0
    /\ last' = Step("open", "")
    /\ UNCHANGED <<variant, collection, written, data, proc, phone, formatted, sinceRequest, sock, qrGenerated, connectionAttempts,
                   inactive, creds, pendingRender, timers, tasks, wiped>>
    /\ sockets' = Collect([sockets EXCEPT ![s] = [st |-> "open", me |-> TRUE]],
                          sock', qrCode', pendingRender', tasks')

\* creds.update -> saveCreds (lines 70-74): what is written is
\* sock.authState.creds of the shared reference, when there is one; with the
\* reference null nothing is written.  ok: the store took the write.
MongoCredsUpdate(s, ok) ==
    /\ variant = "mongo"
    /\ \/ sockets[s].st \in {"pairing", "open"}
       \/ sockets[s].st = "connecting" /\ sockets[s].me
    /\ IF sock # 0 /\ ok
       THEN /\ creds' = TRUE
            /\ last' = Step("creds", IF sock = s THEN "written" ELSE "writtenOther")
       ELSE /\ UNCHANGED creds
            /\ last' = Step("creds", IF sock = 0 THEN "dropped" ELSE "storeFailed")
    /\ UNCHANGED <<variant, collection, written, data, proc, phone, formatted, sinceRequest, sock, isConnected, qrCode, qrGenerated, connectionAttempts,
                   inactive, sockets, pendingRender, timers, tasks, wiped>>

NextMongo ==
    \/ \E t \in Tasks : MongoQr(t)
    \/ MongoStatus
    \/ \E t \in Tasks, valid \in BOOLEAN : MongoSend(t, valid)
    \/ \E t \in Tasks : MongoTimerFire(t)
    \/ \E t \in Tasks : MongoInitDone(t)
    \/ \E t \in Tasks : MongoInitFail(t)
    \/ \E t \in Tasks, outcome \in {"exists", "missing", "throws"} : MongoLookupDone(t, outcome)
    \/ \E t \in Tasks, ok \in BOOLEAN : MongoDispatchDone(t, ok)
    \/ \E s \in Socks : MongoQrSignal(s)
    \/ \E s \in Socks : MongoRenderDone(s)
    \/ \E s \in Socks, reason \in {"loggedOut", "other"} : MongoClose(s, reason)
    \/ \E s \in Socks : MongoOpen(s)
    \/ \E s \in Socks, ok \in BOOLEAN : MongoCredsUpdate(s, ok)

InitMongo == Init /\ variant = "mongo"
SpecMongo == InitMongo /\ [][NextMongo]_vars

\* ---- useMongoDBAuthState: the key store (lines 26-68) ----

\* The entries of one keys.set argument at most.
MaxEntries == 2

\* writeData(data, key): updateOne({key}, {$set: {data, ...}}, {upsert: true})
writeData(coll, value, key) == [coll EXCEPT ![key] = value]

\* readData(key): doc ? doc.data : null
readData(coll, key) == IF coll[key] = "absent" THEN "null" ELSE coll[key]

\* keys.get(type, ids) (lines 49-57): the object with the ids whose value is
\* truthy.
keysGet(coll, type, ids) ==
    LET present == {id \in ids : Truthy(readData(coll, KeyOf(type, id)))} IN
    [id \in present |-> readData(coll, KeyOf(type, id))]

\* keys.set(data) (lines 58-65): data as its entries <<<<category, id>>, value>>
\* in the order of the two for-in loops, each written by writeData.
RECURSIVE keysSet(_, _)
keysSet(coll, entries) ==
    IF entries = <<>> THEN coll
    ELSE keysSet(writeData(coll, Head(entries)[2],
                           KeyOf(Head(entries)[1][1], Head(entries)[1][2])),
                 Tail(entries))

\* The arguments of keys.set: an object holds a category and id once.
Entries ==
    {e \in UNION {[1..n -> Pairs \X Values] : n \in 1..MaxEntries} :
        \A i, j \in 1..Len(e) : i # j => e[i][1] # e[j][1]}

\* History: the value each entry was written with, by category and id.
RECURSIVE Note(_, _)
Note(w, entries) ==
    IF entries = <<>> THEN w
    ELSE Note([w EXCEPT ![Head(entries)[1]] = Head(entries)[2]], Tail(entries))

\* The library calls state.keys.set(data); the result of an earlier keys.get
\* is no longer at hand.
KeysSet(entries) ==
    /\ variant = "mongo"
    /\ collection' = keysSet(collection, entries)
    /\ written' = Note(written, entries)
    /\ data' = NoData
    /\ last' = [Step("keysSet", "") EXCEPT
                  !.wrote = {entries[i][1] : i \in 1..Len(entries)}]
    /\ UNCHANGED <<variant, sock, isConnected, qrCode, qrGenerated, connectionAttempts,
                   inactive, creds, sockets, pendingRender, timers, tasks, wiped,
                   sinceRequest, phone, formatted, proc>>

\* The library calls state.keys.get(type, ids).
KeysGet(type, ids) ==
    /\ variant = "mongo"
    /\ data' = [type |-> type, ids |-> ids, result |-> keysGet(collection, type, ids)]
    /\ last' = Step("keysGet", "")
    /\ UNCHANGED <<variant, collection, written, sock, isConnected, qrCode, qrGenerated,
                   connectionAttempts, inactive, creds, sockets, pendingRender, timers,
                   tasks, wiped, sinceRequest, phone, formatted, proc>>

NextStore ==
    \/ \E entries \in Entries : KeysSet(entries)
    \/ \E type \in Categories, ids \in (SUBSET Ids) \ {{}} : KeysGet(type, ids)

\* Module load with the Credential Record of a paired session in the store.
InitStore == InitMongo /\ creds
SpecStore == InitStore /\ [][NextStore]_vars

\* ======================================================================
\* The Express variant (src/api/index.js 483-1092)
\* ======================================================================

\* ExpressStatus that reports as qrAvailable that a pairing is still required.
ExpressStatus_QrRequired ==
    /\ variant = "express"
    /\ last' = [Resp("status", 200, "absent", "") EXCEPT
                  !.connected = isConnected,
                  !.qrAvailable = (~isConnected /\ qrCode = 0),
                  !.botNumber = BotNumber]
    /\ UNCHANGED <<variant, collection, written, data, proc, phone, formatted, sinceRequest, sock, isConnected, qrCode, qrGenerated, connectionAttempts,
                   inactive, creds, sockets, pendingRender, timers, tasks, wiped>>

\* GET /status (lines 1032-1045)
ExpressStatus ==
    /\ variant = "express"
    /\ last' = [Resp("status", 200, "absent", "") EXCEPT
                  !.connected = isConnected,
                  !.qrAvailable = (qrCode # 0),
                  !.botNumber = BotNumber]
    /\ UNCHANGED <<variant, collection, written, data, proc, phone, formatted, sinceRequest, sock, isConnected, qrCode, qrGenerated, connectionAttempts,
                   inactive, creds, sockets, pendingRender, timers, tasks, wiped>>

\* GET /qr (lines 962-977)
ExpressQr ==
    /\ variant = "express"
    /\ last' = IF qrCode # 0
               THEN [Resp("qr", 200, "true", "") EXCEPT !.qrAvailable = TRUE]
               ELSE [Resp("qr", 200, "false", "") EXCEPT !.connected = isConnected]
    /\ UNCHANGED <<variant, collection, written, data, proc, phone, formatted, sinceRequest, sock, isConnected, qrCode, qrGenerated, connectionAttempts,
                   inactive, creds, sockets, pendingRender, timers, tasks, wiped>>

\* ExpressClearAuth that leaves the pairing artifact in place.
ExpressClearAuth_KeepsArtifact(ok) ==
    /\ variant = "express"
    /\ IF ok
       THEN /\ timers < MaxTimers
            /\ creds' = FALSE
            /\ UNCHANGED <<qrCode, qrGenerated>>
            /\ isConnected' = FALSE
            /\ connectionAttempts' = 0
            /\ sock' = 0
            /\ timers' = timers + 1
            /\ wiped' = FALSE
            /\ last' = Resp("clear", 200, "true",
                            IF isConnected THEN "wasConnected" ELSE "")
            /\ UNCHANGED <<variant, collection, written, data, proc, phone, formatted, sinceRequest, inactive, pendingRender, tasks>>
            /\ sockets' = Collect(EndSocket(sock), sock', qrCode', pendingRender', tasks')
       ELSE /\ last' = Resp("clear", 500, "false", "wipeFailed")
            /\ UNCHANGED <<variant, collection, written, data, proc, phone, formatted, sinceRequest, sock, isConnected, qrCode, qrGenerated,
                           connectionAttempts, inactive, creds, sockets, pendingRender,
                           timers, tasks, wiped>>

\* POST /clear-auth (lines 928-959).  ok: readdirSync and every unlinkSync succeed.
ExpressClearAuth(ok) ==
    /\ variant = "express"
    /\ IF ok
       THEN /\ timers < MaxTimers
            /\ creds' = FALSE
            /\ qrCode' = 0
            /\ qrGenerated' = FALSE
            /\ isConnected' = FALSE
            /\ connectionAttempts' = 0
            /\ sock' = 0
            /\ timers' = timers + 1
            /\ wiped' = FALSE
            /\ last' = Resp("clear", 200, "true",
                            IF isConnected THEN "wasConnected" ELSE "")
            /\ UNCHANGED <<variant, collection, written, data, proc, phone, formatted, sinceRequest, inactive, pendingRender, tasks>>
            /\ sockets' = Collect(EndSocket(sock), sock', qrCode', pendingRender', tasks')
       ELSE /\ last' = Resp("clear", 500, "false", "wipeFailed")
            /\ UNCHANGED <<variant, collection, written, data, proc, phone, formatted, sinceRequest, sock, isConnected, qrCode, qrGenerated,
                           connectionAttempts, inactive, creds, sockets, pendingRender,
                           timers, tasks, wiped>>

\* POST /send-message, from the request to its first await (lines 980-1002).
ExpressSend(t, valid) ==
    /\ variant = "express"
    /\ IF ~valid
       THEN /\ t = 1
            /\ last' = [SendResp(400, "false", "validation", Disconnected) EXCEPT !.valid = FALSE]
            /\ UNCHANGED tasks
       ELSE IF ~isConnected \/ sock = 0
       THEN /\ t = 1
            /\ last' = SendResp(503, "false", "notConnected", Disconnected)
            /\ UNCHANGED tasks
       ELSE /\ FreeSlot(t)
            /\ tasks' = [tasks EXCEPT ![t] =
                           [kind |-> "send", pc |-> "lookup", s |-> sock,
                            disc0 |-> Disconnected]]
            /\ last' = Step("step", "")
    /\ UNCHANGED <<variant, collection, written, data, proc, phone, formatted, sinceRequest, sock, isConnected, qrCode, qrGenerated, connectionAttempts,
                   inactive, creds, sockets, pendingRender, timers, wiped>>

\* sock.onWhatsApp(jid) answered (lines 1002-1011, catch 1022-1028).
ExpressLookupDone(t, outcome) ==
    /\ variant = "express"
    /\ tasks[t].pc = "lookup"
    /\ CASE outcome = "exists" /\ sock # 0 ->
              /\ tasks' = [tasks EXCEPT ![t].pc = "dispatch", ![t].s = sock]
              /\ last' = [Step("step", "") EXCEPT !.result = outcome]
         [] outcome = "exists" /\ sock = 0 ->
              /\ tasks' = [tasks EXCEPT ![t] = IdleTask]
              /\ last' = [SendResp(500, "false", "error", tasks[t].disc0) EXCEPT !.result = outcome]
         [] outcome = "missing" ->
              /\ tasks' = [tasks EXCEPT ![t] = IdleTask]
              /\ last' = [SendResp(404, "false", "notFound", tasks[t].disc0) EXCEPT !.result = outcome]
         [] OTHER ->
              /\ tasks' = [tasks EXCEPT ![t] = IdleTask]
              /\ last' = [SendResp(500, "false", "error", tasks[t].disc0) EXCEPT !.result = outcome]
    /\ UNCHANGED <<variant, collection, written, data, proc, phone, formatted, sinceRequest, sock, isConnected, qrCode, qrGenerated, connectionAttempts,
                   inactive, creds, pendingRender, timers, wiped>>
    /\ sockets' = Collect(sockets, sock', qrCode', pendingRender', tasks')

\* ExpressDispatchDone that goes back to the lookup when the send failed.
ExpressDispatchDone_Retries(t, ok) ==
    /\ variant = "express"
    /\ tasks[t].pc = "dispatch"
    /\ tasks' = IF ok THEN [tasks EXCEPT ![t] = IdleTask]
                    ELSE [tasks EXCEPT ![t].pc = "lookup"]
    /\ last' = IF ok THEN SendResp(200, "true", "sent", tasks[t].disc0)
                     ELSE Step("step", "retry")
    /\ UNCHANGED <<variant, collection, written, data, proc, phone, formatted, sinceRequest, sock, isConnected, qrCode, qrGenerated, connectionAttempts,
                   inactive, creds, pendingRender, timers, wiped>>
    /\ sockets' = Collect(sockets, sock', qrCode', pendingRender', tasks')

\* sock.sendMessage(jid, ...) answered (lines 1011-1028).
ExpressDispatchDone(t, ok) ==
    /\ variant = "express"
    /\ tasks[t].pc = "dispatch"
    /\ tasks' = [tasks EXCEPT ![t] = IdleTask]
    /\ last' = IF ok THEN SendResp(200, "true", "sent", tasks[t].disc0)
                     ELSE SendResp(500, "false", "error", tasks[t].disc0)
    /\ UNCHANGED <<variant, collection, written, data, proc, phone, formatted, sinceRequest, sock, isConnected, qrCode, qrGenerated, connectionAttempts,
                   inactive, creds, pendingRender, timers, wiped>>
    /\ sockets' = Collect(sockets, sock', qrCode', pendingRender', tasks')

\* A setTimeout callback calls connectToWhatsApp() (lines 581-583, 593, 623,
\* 947): the counter is incremented and the version fetch awaited (512-518).
ExpressTimerFire(t) ==
    /\ variant = "express"
    /\ timers > 0
    /\ FreeSlot(t)
    /\ connectionAttempts < MaxAttempts
    /\ timers' = timers - 1
    /\ connectionAttempts' = connectionAttempts + 1
    /\ tasks' = [tasks EXCEPT ![t] = [kind |-> "auto", pc |-> "init", s |-> 0, disc0 |-> FALSE]]
    /\ last' = Step("timer", IF sock # 0 /\ isConnected THEN "connected" ELSE "init")
    /\ UNCHANGED <<variant, collection, written, data, proc, phone, formatted, sinceRequest, sock, isConnected, qrCode, qrGenerated,
                   inactive, creds, sockets, pendingRender, wiped>>

\* The version and the auth state arrived: makeWASocket and the handlers
\* (lines 518-616).
ExpressInitDone(t) ==
    /\ variant = "express"
    /\ tasks[t].pc = "init"
    /\ CanCreate
    /\ sock' = NewSock
    /\ tasks' = [tasks EXCEPT ![t] = IdleTask]
    /\ last' = Step("step", "")
    /\ UNCHANGED <<variant, collection, written, data, proc, phone, formatted, sinceRequest, isConnected, qrCode, qrGenerated, connectionAttempts,
                   inactive, creds, pendingRender, timers, wiped>>
    /\ sockets' = Collect(makeWASocket(NewSock), sock', qrCode', pendingRender', tasks')

\* ExpressInitFail that schedules a further attempt after giving up as well.
ExpressInitFail_KeepsRetrying(t) ==
    /\ variant = "express"
    /\ tasks[t].pc = "init"
    /\ tasks' = [tasks EXCEPT ![t] = IdleTask]
    /\ IF connectionAttempts < MAX_RETRY_ATTEMPTS
       THEN /\ timers < MaxTimers
            /\ timers' = timers + 1
            /\ UNCHANGED connectionAttempts
            /\ last' = [Step("initfail", "retry") EXCEPT !.delay = 10000]
       ELSE /\ connectionAttempts' = 0
            /\ timers < MaxTimers
            /\ timers' = timers + 1
            /\ last' = Step("initfail", "giveup")
    /\ UNCHANGED <<variant, collection, written, data, proc, phone, formatted, sinceRequest, sock, isConnected, qrCode, qrGenerated,
                   inactive, creds, sockets, pendingRender, wiped>>

\* The version fetch, the auth load or makeWASocket throws: the catch of
\* lines 618-628.
ExpressInitFail(t) ==
    /\ variant = "express"
    /\ tasks[t].pc = "init"
    /\ tasks' = [tasks EXCEPT ![t] = IdleTask]
    /\ IF connectionAttempts < MAX_RETRY_ATTEMPTS
       THEN /\ timers < MaxTimers
            /\ timers' = timers + 1
            /\ UNCHANGED connectionAttempts
            /\ last' = [Step("initfail", "retry") EXCEPT !.delay = 10000]
       ELSE /\ connectionAttempts' = 0
            /\ UNCHANGED timers
            /\ last' = Step("initfail", "giveup")
    /\ UNCHANGED <<variant, collection, written, data, proc, phone, formatted, sinceRequest, sock, isConnected, qrCode, qrGenerated,
                   inactive, creds, sockets, pendingRender, wiped>>

\* ---- the connection.update and creds.update handlers of connectToWhatsApp ----

\* A pairing signal {qr} (lines 540-550).
ExpressQrSignal(s) ==
    /\ variant = "express"
    /\ sockets[s].st \in {"connecting", "pairing"}
    /\ ~sockets[s].me
    /\ qrCode' = s
    /\ qrGenerated' = TRUE
    /\ isConnected' = FALSE
    /\ connectionAttempts' = 0
    /\ last' = Step("step", "")
    /\ UNCHANGED <<variant, collection, written, data, proc, phone, formatted, sinceRequest, sock, inactive, creds, pendingRender, timers, tasks, wiped>>
    /\ sockets' = Collect([sockets EXCEPT ![s].st = "pairing"],
                          sock', qrCode', pendingRender', tasks')

\* ReconnectDelay that doubles with every attempt.
ReconnectDelay_Doubling(n) ==
    IF 5000 * (2 ^ n) < 15000 THEN 5000 * (2 ^ n) ELSE 15000

\* Math.min(5000 * connectionAttempts, 15000) (line 579)
ReconnectDelay(n) ==
    IF 5000 * n < 15000 THEN 5000 * n ELSE 15000

\* ExpressClose whose exhausted branch leaves the retry counter as it is.
ExpressClose_KeepsCounter(s, reason, ok) ==
    /\ variant = "express"
    /\ \/ Live(s)
       \/ sockets[s].st = "ended" /\ reason = "other"
    /\ isConnected' = FALSE
    /\ IF reason = "loggedOut"
       THEN /\ qrCode' = 0
            /\ qrGenerated' = FALSE
            /\ creds' = IF ok THEN FALSE ELSE creds
            /\ last' = Step("close", IF ok THEN "loggedOut" ELSE "loggedOutWipeFailed")
            /\ UNCHANGED <<connectionAttempts, timers, wiped>>
       ELSE IF connectionAttempts < MAX_RETRY_ATTEMPTS
       THEN /\ ok
            /\ timers < MaxTimers
            /\ timers' = timers + 1
            /\ last' = [Step("close", "retry") EXCEPT
                          !.delay = ReconnectDelay(connectionAttempts)]
            /\ UNCHANGED <<qrCode, qrGenerated, creds, connectionAttempts, wiped>>
       ELSE /\ connectionAttempts' = connectionAttempts
            /\ IF ok
               THEN /\ timers < MaxTimers
                    /\ creds' = FALSE
                    /\ timers' = timers + 1
                    /\ wiped' = TRUE
                    /\ last' = [Step("close", "exhausted") EXCEPT !.delay = 5000]
               ELSE /\ UNCHANGED <<creds, timers, wiped>>
                    /\ last' = Step("close", "exhaustedWipeFailed")
            /\ UNCHANGED <<qrCode, qrGenerated>>
    /\ UNCHANGED <<variant, collection, written, data, proc, phone, formatted, sinceRequest, sock, inactive, pendingRender, tasks>>
    /\ sockets' = Collect([sockets EXCEPT ![s].st = "closed"],
                          sock', qrCode', pendingRender', tasks')

\* ExpressClose that sets no timer in the retry branch.
ExpressClose_NoReconnect(s, reason, ok) ==
    /\ variant = "express"
    /\ \/ Live(s)
       \/ sockets[s].st = "ended" /\ reason = "other"
    /\ isConnected' = FALSE
    /\ IF reason = "loggedOut"
       THEN /\ qrCode' = 0
            /\ qrGenerated' = FALSE
            /\ creds' = IF ok THEN FALSE ELSE creds
            /\ last' = Step("close", IF ok THEN "loggedOut" ELSE "loggedOutWipeFailed")
            /\ UNCHANGED <<connectionAttempts, timers, wiped>>
       ELSE IF connectionAttempts < MAX_RETRY_ATTEMPTS
       THEN /\ ok
            /\ timers' = timers
            /\ last' = [Step("close", "retry") EXCEPT
                          !.delay = ReconnectDelay(connectionAttempts)]
            /\ UNCHANGED <<qrCode, qrGenerated, creds, connectionAttempts, wiped>>
       ELSE /\ connectionAttempts' = 0
            /\ IF ok
               THEN /\ timers < MaxTimers
                    /\ creds' = FALSE
                    /\ timers' = timers + 1
                    /\ wiped' = TRUE
                    /\ last' = [Step("close", "exhausted") EXCEPT !.delay = 5000]
               ELSE /\ UNCHANGED <<creds, timers, wiped>>
                    /\ last' = Step("close", "exhaustedWipeFailed")
            /\ UNCHANGED <<qrCode, qrGenerated>>
    /\ UNCHANGED <<variant, collection, written, data, proc, phone, formatted, sinceRequest, sock, inactive, pendingRender, tasks>>
    /\ sockets' = Collect([sockets EXCEPT ![s].st = "closed"],
                          sock', qrCode', pendingRender', tasks')

\* connection === 'close' (lines 552-598): of a live socket for either reason,
\* of an ended one without the logged-out code.  ok: the unlink loop succeeds.
ExpressClose(s, reason, ok) ==
    /\ variant = "express"
    /\ \/ Live(s)
       \/ sockets[s].st = "ended" /\ reason = "other"
    /\ isConnected' = FALSE
    /\ IF reason = "loggedOut"
       THEN /\ qrCode' = 0
            /\ qrGenerated' = FALSE
            /\ creds' = IF ok THEN FALSE ELSE creds
            /\ last' = Step("close", IF ok THEN "loggedOut" ELSE "loggedOutWipeFailed")
            /\ UNCHANGED <<connectionAttempts, timers, wiped>>
       ELSE IF connectionAttempts < MAX_RETRY_ATTEMPTS
       THEN /\ ok
            /\ timers < MaxTimers
            /\ timers' = timers + 1
            /\ last' = [Step("close", "retry") EXCEPT
                          !.delay = ReconnectDelay(connectionAttempts)]
            /\ UNCHANGED <<qrCode, qrGenerated, creds, connectionAttempts, wiped>>
       ELSE /\ connectionAttempts' = 0
            /\ IF ok
               THEN /\ timers < MaxTimers
                    /\ creds' = FALSE
                    /\ timers' = timers + 1
                    /\ wiped' = TRUE
                    /\ last' = [Step("close", "exhausted") EXCEPT !.delay = 5000]
               ELSE /\ UNCHANGED <<creds, timers, wiped>>
                    /\ last' = Step("close", "exhaustedWipeFailed")
            /\ UNCHANGED <<qrCode, qrGenerated>>
    /\ UNCHANGED <<variant, collection, written, data, proc, phone, formatted, sinceRequest, sock, inactive, pendingRender, tasks>>
    /\ sockets' = Collect([sockets EXCEPT ![s].st = "closed"],
                          sock', qrCode', pendingRender', tasks')

\* connection === 'open' (lines 599-606).  Line 601 reads sock.user.id from
\* the shared reference: it throws when that is null or a socket without user.
ExpressOpen(s) ==
    /\ variant = "express"
    /\ \/ sockets[s].st = "connecting" /\ sockets[s].me
       \/ sockets[s].st = "pairing"
    /\ IF sock # 0 /\ (sock = s \/ sockets[sock].me)
       THEN /\ qrCode' = 0
            /\ qrGenerated' = FALSE
            /\ isConnected' = TRUE
            /\ connectionAttempts' = 0
            /\ wiped' = FALSE
            /\ last' = Step("open", "")
       ELSE /\ UNCHANGED <<qrCode, qrGenerated, isConnected, connectionAttempts, wiped>>
            /\ last' = Step("open", "threw")
    /\ UNCHANGED <<variant, collection, written, data, proc, phone, formatted, sinceRequest, sock, inactive, creds, pendingRender, timers, tasks>>
    /\ sockets' = Collect([sockets EXCEPT ![s] = [st |-> "open", me |-> TRUE]],
                          sock', qrCode', pendingRender', tasks')

\* creds.update -> saveCreds of useMultiFileAuthState (line 612).
ExpressCredsUpdate(s, ok) ==
    /\ variant = "express"
    /\ \/ sockets[s].st \in {"pairing", "open"}
       \/ sockets[s].st = "connecting" /\ sockets[s].me
    /\ creds' = IF ok THEN TRUE ELSE creds
    /\ last' = Step("creds", IF ok THEN "written" ELSE "storeFailed")
    /\ UNCHANGED <<variant, collection, written, data, proc, phone, formatted, sinceRequest, sock, isConnected, qrCode, qrGenerated, connectionAttempts,
                   inactive, sockets, pendingRender, timers, tasks, wiped>>

NextExpress ==
    \/ ExpressStatus
    \/ ExpressQr
    \/ \E ok \in BOOLEAN : ExpressClearAuth(ok)
    \/ \E t \in Tasks, valid \in BOOLEAN : ExpressSend(t, valid)
    \/ \E t \in Tasks, outcome \in {"exists", "missing", "throws"} : ExpressLookupDone(t, outcome)
    \/ \E t \in Tasks, ok \in BOOLEAN : ExpressDispatchDone(t, ok)
    \/ \E t \in Tasks : ExpressTimerFire(t)
    \/ \E t \in Tasks : ExpressInitDone(t)
    \/ \E t \in Tasks : ExpressInitFail(t)
    \/ \E s \in Socks : ExpressQrSignal(s)
    \/ \E s \in Socks, reason \in {"loggedOut", "other"}, ok \in BOOLEAN : ExpressClose(s, reason, ok)
    \/ \E s \in Socks : ExpressOpen(s)
    \/ \E s \in Socks, ok \in BOOLEAN : ExpressCredsUpdate(s, ok)

InitExpress == Init /\ variant = "express"
SpecExpress == InitExpress /\ [][NextExpress]_vars

\* Timers and awaited I/O of the Express variant under fairness: a timer that
\* is pending fires (setTimeout, lines 581-583, 593, 623, 947), and an awaited
\* call of the library settles one way or the other.
SpecExpressFair ==
    /\ SpecExpress
    /\ SF_vars(\E t \in Tasks : ExpressTimerFire(t))
    /\ WF_vars(\E t \in Tasks : ExpressInitDone(t) \/ ExpressInitFail(t))
    /\ WF_vars(\E t \in Tasks, outcome \in {"exists", "missing", "throws"} :
                  ExpressLookupDone(t, outcome))
    /\ WF_vars(\E t \in Tasks, ok \in BOOLEAN : ExpressDispatchDone(t, ok))

\* ---- shutdown (lines 1057-1072) ----

\* ShutdownSignal that exits without a look at the socket.
ShutdownSignal_ExitsAtOnce(ok) ==
    /\ variant = "express"
    /\ proc # "exit0"
    /\ ok
    /\ proc' = "exit0"
    /\ last' = Step("exit", IF sock = 0 THEN "noSocket" ELSE "notEnded")
    /\ UNCHANGED <<variant, collection, written, data, phone, formatted, sinceRequest, sock, isConnected, qrCode,
                   qrGenerated, connectionAttempts, inactive, creds, sockets,
                   pendingRender, timers, tasks, wiped>>

\* SIGTERM or SIGINT: shutdown(signal) to its await, or to process.exit(0)
\* when there is no socket.  ok: sock.end() returns; otherwise it throws and
\* the catch logs the error.  Either way the await is passed before the exit.
ShutdownSignal(ok) ==
    /\ variant = "express"
    /\ proc # "exit0"
    /\ IF sock = 0
       THEN /\ ok
            /\ proc' = "exit0"
            /\ last' = Step("exit", "noSocket")
            /\ UNCHANGED sockets
       ELSE /\ proc' = IF ok THEN "ended" ELSE "endThrew"
            /\ last' = Step("signal", IF ok THEN "ended" ELSE "endThrew")
            /\ sockets' = IF ok THEN EndSocket(sock) ELSE sockets
    /\ UNCHANGED <<variant, collection, written, data, phone, formatted, sinceRequest, sock, isConnected, qrCode,
                   qrGenerated, connectionAttempts, inactive, creds,
                   pendingRender, timers, tasks, wiped>>

\* The await of sock.end() is over, or the catch has run: process.exit(0)
\* (line 1068).
ShutdownExit ==
    /\ variant = "express"
    /\ proc \in {"ended", "endThrew"}
    /\ proc' = "exit0"
    /\ last' = Step("exit", proc)
    /\ UNCHANGED <<variant, collection, written, data, phone, formatted, sinceRequest, sock, isConnected, qrCode,
                   qrGenerated, connectionAttempts, inactive, creds, sockets,
                   pendingRender, timers, tasks, wiped>>

\* The Express server with its signal handlers: nothing runs after the exit.
NextShutdown ==
    \/ proc # "exit0" /\ NextExpress
    \/ \E ok \in BOOLEAN : ShutdownSignal(ok)
    \/ ShutdownExit

SpecShutdown == InitExpress /\ [][NextShutdown]_vars

\* The continuation of an await is run once what it awaits has settled.
SpecShutdownFair == SpecShutdown /\ WF_vars(ShutdownExit)

\* ======================================================================
\* The tmp variant (src/unnamed/part_000)
\* ======================================================================

\* KeepAliveExpires that does not look at the time since the last activity.
KeepAliveExpires_AnyTime ==
    sock # 0 /\ isConnected

\* keepAlive() (lines 110-120), called at the start of every request (line 135).
KeepAliveExpires ==
    sock # 0 /\ isConnected /\ inactive > CONNECTION_TIMEOUT
KeepAliveSock == IF KeepAliveExpires THEN 0 ELSE sock
KeepAliveConnected == IF KeepAliveExpires THEN FALSE ELSE isConnected
KeepAliveSockets == IF KeepAliveExpires THEN EndSocket(sock) ELSE sockets
KeepAlive(l) == [l EXCEPT !.ended = KeepAliveExpires]

\* The response of /api/qr once its connection attempt is over (lines 369-380);
\* qr is the stored artifact at that time.
TmpQrAnswer(base, qr, result) ==
    [base EXCEPT !.route = "qr", !.result = result,
                 !.code = IF qr # 0 THEN 200 ELSE 503,
                 !.success = IF qr # 0 THEN "true" ELSE "false",
                 !.message = (qr = 0),
                 !.qrAvailable = (qr # 0)]

\* TmpConnectAnswer that answers a closed connection as a success.
TmpConnectAnswer_ClosedIsSuccess(base, result) ==
    [base EXCEPT !.route = "connect", !.result = result,
                 !.code = IF result \in {"connected", "qr", "existing", "closed"} THEN 200 ELSE 500,
                 !.message = (result \notin {"connected", "qr", "existing", "closed"}),
                 !.success = IF result \in {"connected", "qr", "existing", "closed"}
                             THEN "true" ELSE "false"]

\* The response of /api/connect once its Promise settled (lines 339-349).
TmpConnectAnswer(base, result) ==
    [base EXCEPT !.route = "connect", !.result = result,
                 !.code = IF result \in {"connected", "qr", "existing"} THEN 200 ELSE 500,
                 !.message = (result \notin {"connected", "qr", "existing"}),
                 !.success = IF result \in {"connected", "qr", "existing"}
                             THEN "true" ELSE "false"]

\* The request, if any, that waits on the Promise made with socket s.
Waiter(s) == {t \in Tasks : tasks[t].pc = "wait" /\ tasks[t].s = s}

\* resolve / reject of the Promise of socket s, and the run of the request
\* that awaited it; a Promise already settled, or awaited by nobody, ignores it.
TmpSettle(base, s, result, qr) ==
    IF Waiter(s) = {}
    THEN /\ last' = base
         /\ UNCHANGED tasks
    ELSE LET t == CHOOSE u \in Waiter(s) : TRUE IN
         /\ tasks' = [tasks EXCEPT ![t] = IdleTask]
         /\ last' = IF tasks[t].kind = "connect"
                    THEN TmpConnectAnswer(base, result)
                    ELSE TmpQrAnswer(base, qr, result)

\* GET /api/status (lines 326-334)
TmpStatus ==
    /\ variant = "tmp"
    /\ sock' = KeepAliveSock
    /\ isConnected' = KeepAliveConnected
    /\ last' = KeepAlive([Resp("status", 200, "absent",
                      IF KeepAliveExpires THEN "keepAliveEnded" ELSE "") EXCEPT
                  !.connected = KeepAliveConnected,
                  !.qrAvailable = (qrCode # 0),
                  !.botNumber = (KeepAliveSock # 0 /\ sockets[KeepAliveSock].me)])
    /\ sinceRequest' = 0
    /\ UNCHANGED <<variant, collection, written, data, proc, phone, formatted, qrCode, qrGenerated, connectionAttempts,
                   inactive, creds, pendingRender, timers, tasks, wiped>>
    /\ sockets' = Collect(KeepAliveSockets, sock', qrCode', pendingRender', tasks')

\* POST /api/connect, to its first await (lines 337-339, 34-44).
TmpConnect(t) ==
    /\ variant = "tmp"
    /\ sock' = KeepAliveSock
    /\ isConnected' = KeepAliveConnected
    /\ IF KeepAliveSock # 0 /\ KeepAliveConnected
       THEN /\ t = 1
            /\ inactive' = 0
            /\ last' = KeepAlive(TmpConnectAnswer(Step("connect", "existing"), "existing"))
            /\ UNCHANGED tasks
       ELSE /\ FreeSlot(t)
            /\ tasks' = [tasks EXCEPT ![t] =
                           [kind |-> "connect", pc |-> "init", s |-> 0, disc0 |-> FALSE]]
            /\ last' = KeepAlive(Step("connect", "init"))
            /\ UNCHANGED inactive
    /\ sinceRequest' = 0
    /\ UNCHANGED <<variant, collection, written, data, proc, phone, formatted, qrCode, qrGenerated, connectionAttempts,
                   creds, pendingRender, timers, wiped>>
    /\ sockets' = Collect(KeepAliveSockets, sock', qrCode', pendingRender', tasks')

\* GET /api/qr, to its response or its first await (lines 353-381).
TmpQr(t) ==
    /\ variant = "tmp"
    /\ sock' = KeepAliveSock
    /\ isConnected' = KeepAliveConnected
    /\ IF KeepAliveConnected
       THEN /\ t = 1
            /\ last' = KeepAlive(Resp("qr", 200, "false", "connected"))
            /\ UNCHANGED tasks
       ELSE IF qrCode = 0
       THEN /\ FreeSlot(t)
            /\ tasks' = [tasks EXCEPT ![t] =
                           [kind |-> "qr", pc |-> "init", s |-> 0, disc0 |-> FALSE]]
            /\ last' = KeepAlive(Step("qr", "init"))
       ELSE /\ t = 1
            /\ last' = KeepAlive([Resp("qr", 200, "true", "") EXCEPT !.qrAvailable = TRUE])
            /\ UNCHANGED tasks
    /\ sinceRequest' = 0
    /\ UNCHANGED <<variant, collection, written, data, proc, phone, formatted, qrCode, qrGenerated, connectionAttempts,
                   inactive, creds, pendingRender, timers, wiped>>
    /\ sockets' = Collect(KeepAliveSockets, sock', qrCode', pendingRender', tasks')

\* TmpSend that starts a connection attempt when the session is not connected.
TmpSend_Reconnects(t, valid) ==
    /\ variant = "tmp"
    /\ sock' = KeepAliveSock
    /\ isConnected' = KeepAliveConnected
    /\ IF ~valid
       THEN /\ t = 1
            /\ last' = KeepAlive([SendResp(400, "false", "validation", Disconnected) EXCEPT !.valid = FALSE])
            /\ UNCHANGED tasks
       ELSE IF ~KeepAliveConnected \/ KeepAliveSock = 0
       THEN /\ FreeSlot(t)
            /\ tasks' = [tasks EXCEPT ![t] =
                           [kind |-> "qr", pc |-> "init", s |-> 0, disc0 |-> FALSE]]
            /\ last' = KeepAlive(Step("send", "lookup"))
       ELSE /\ FreeSlot(t)
            /\ tasks' = [tasks EXCEPT ![t] =
                           [kind |-> "send", pc |-> "lookup", s |-> sock,
                            disc0 |-> Disconnected]]
            /\ last' = KeepAlive(Step("send", "lookup"))
    /\ sinceRequest' = 0
    /\ UNCHANGED <<variant, collection, written, data, proc, phone, formatted, qrCode, qrGenerated, connectionAttempts,
                   inactive, creds, pendingRender, timers, wiped>>
    /\ sockets' = Collect(KeepAliveSockets, sock', qrCode', pendingRender', tasks')

\* POST /api/send, from the request to its first await (lines 384-405).
TmpSend(t, valid) ==
    /\ variant = "tmp"
    /\ sock' = KeepAliveSock
    /\ isConnected' = KeepAliveConnected
    /\ IF ~valid
       THEN /\ t = 1
            /\ last' = KeepAlive([SendResp(400, "false", "validation", Disconnected) EXCEPT !.valid = FALSE])
            /\ UNCHANGED tasks
       ELSE IF ~KeepAliveConnected \/ KeepAliveSock = 0
       THEN /\ t = 1
            /\ last' = KeepAlive(SendResp(503, "false", "notConnected", Disconnected))
            /\ UNCHANGED tasks
       ELSE /\ FreeSlot(t)
            /\ tasks' = [tasks EXCEPT ![t] =
                           [kind |-> "send", pc |-> "lookup", s |-> sock,
                            disc0 |-> Disconnected]]
            /\ last' = KeepAlive(Step("send", "lookup"))
    /\ sinceRequest' = 0
    /\ UNCHANGED <<variant, collection, written, data, proc, phone, formatted, qrCode, qrGenerated, connectionAttempts,
                   inactive, creds, pendingRender, timers, wiped>>
    /\ sockets' = Collect(KeepAliveSockets, sock', qrCode', pendingRender', tasks')

\* TmpLookupDone that goes on to send to a destination reported not registered.
TmpLookupDone_SendsUnregistered(t, outcome) ==
    /\ variant = "tmp"
    /\ tasks[t].pc = "lookup"
    /\ CASE outcome = "exists" /\ sock # 0 ->
              /\ tasks' = [tasks EXCEPT ![t].pc = "dispatch", ![t].s = sock]
              /\ last' = [Step("step", "") EXCEPT !.result = outcome]
         [] outcome = "exists" /\ sock = 0 ->
              /\ tasks' = [tasks EXCEPT ![t] = IdleTask]
              /\ last' = [SendResp(500, "false", "error", tasks[t].disc0) EXCEPT !.result = outcome]
         [] outcome = "missing" /\ sock # 0 ->
              /\ tasks' = [tasks EXCEPT ![t].pc = "dispatch", ![t].s = sock]
              /\ last' = [Step("step", "") EXCEPT !.result = outcome]
         [] OTHER ->
              /\ tasks' = [tasks EXCEPT ![t] = IdleTask]
              /\ last' = [SendResp(500, "false", "error", tasks[t].disc0) EXCEPT !.result = outcome]
    /\ UNCHANGED <<variant, collection, written, data, proc, phone, formatted, sinceRequest, sock, isConnected, qrCode, qrGenerated, connectionAttempts,
                   inactive, creds, pendingRender, timers, wiped>>
    /\ sockets' = Collect(sockets, sock', qrCode', pendingRender', tasks')

\* sock.onWhatsApp(jid) answered (lines 405-413, catch 422-427).
TmpLookupDone(t, outcome) ==
    /\ variant = "tmp"
    /\ tasks[t].pc = "lookup"
    /\ CASE outcome = "exists" /\ sock # 0 ->
              /\ tasks' = [tasks EXCEPT ![t].pc = "dispatch", ![t].s = sock]
              /\ last' = [Step("step", "") EXCEPT !.result = outcome]
         [] outcome = "exists" /\ sock = 0 ->
              /\ tasks' = [tasks EXCEPT ![t] = IdleTask]
              /\ last' = [SendResp(500, "false", "error", tasks[t].disc0) EXCEPT !.result = outcome]
         [] outcome = "missing" ->
              /\ tasks' = [tasks EXCEPT ![t] = IdleTask]
              /\ last' = [SendResp(404, "false", "notFound", tasks[t].disc0) EXCEPT !.result = outcome]
         [] OTHER ->
              /\ tasks' = [tasks EXCEPT ![t] = IdleTask]
              /\ last' = [SendResp(500, "false", "error", tasks[t].disc0) EXCEPT !.result = outcome]
    /\ UNCHANGED <<variant, collection, written, data, proc, phone, formatted, sinceRequest, sock, isConnected, qrCode, qrGenerated, connectionAttempts,
                   inactive, creds, pendingRender, timers, wiped>>
    /\ sockets' = Collect(sockets, sock', qrCode', pendingRender', tasks')

\* sock.sendMessage(jid, ...) answered (lines 413-427).
TmpDispatchDone(t, ok) ==
    /\ variant = "tmp"
    /\ tasks[t].pc = "dispatch"
    /\ tasks' = [tasks EXCEPT ![t] = IdleTask]
    /\ inactive' = IF ok THEN 0 ELSE inactive
    /\ last' = IF ok THEN SendResp(200, "true", "sent", tasks[t].disc0)
                     ELSE SendResp(500, "false", "error", tasks[t].disc0)
    /\ UNCHANGED <<variant, collection, written, data, proc, phone, formatted, sinceRequest, sock, isConnected, qrCode, qrGenerated, connectionAttempts,
                   creds, pendingRender, timers, wiped>>
    /\ sockets' = Collect(sockets, sock', qrCode', pendingRender', tasks')

\* TmpClear that wipes the folder before it touches the session, as the Express handler does.
TmpClear_WipesFirst(ok) ==
    /\ variant = "tmp"
    /\ sock' = IF ok THEN 0 ELSE sock
    /\ isConnected' = IF ok THEN FALSE ELSE isConnected
    /\ qrCode' = IF ok THEN 0 ELSE qrCode
    /\ creds' = IF ok THEN FALSE ELSE creds
    /\ last' = KeepAlive(IF ok
               THEN Resp("clear", 200, "true", IF isConnected THEN "wasConnected" ELSE "")
               ELSE Resp("clear", 500, "false", "wipeFailed"))
    /\ sinceRequest' = 0
    /\ UNCHANGED <<variant, collection, written, data, proc, phone, formatted, qrGenerated, connectionAttempts, inactive,
                   pendingRender, timers, tasks, wiped>>
    /\ sockets' = Collect(IF ok THEN EndSocket(sock) ELSE sockets, sock', qrCode', pendingRender', tasks')

\* POST /api/clear (lines 431-453).  ok: readdirSync and every unlinkSync succeed.
TmpClear(ok) ==
    /\ variant = "tmp"
    /\ sock' = 0
    /\ isConnected' = FALSE
    /\ qrCode' = 0
    /\ creds' = IF ok THEN FALSE ELSE creds
    /\ last' = KeepAlive(IF ok
               THEN Resp("clear", 200, "true", IF isConnected THEN "wasConnected" ELSE "")
               ELSE Resp("clear", 500, "false", "wipeFailed"))
    /\ sinceRequest' = 0
    /\ UNCHANGED <<variant, collection, written, data, proc, phone, formatted, qrGenerated, connectionAttempts, inactive,
                   pendingRender, timers, tasks, wiped>>
    /\ sockets' = Collect(EndSocket(sock), sock', qrCode', pendingRender', tasks')

\* The version and the auth state arrived: makeWASocket, then the Promise with
\* its 45 s timer and the handlers; the caller awaits it (lines 43-102).
TmpInitDone(t) ==
    /\ variant = "tmp"
    /\ tasks[t].pc = "init"
    /\ CanCreate
    /\ sock' = NewSock
    /\ tasks' = [tasks EXCEPT ![t].pc = "wait", ![t].s = NewSock]
    /\ last' = Step("step", "")
    /\ UNCHANGED <<variant, collection, written, data, proc, phone, formatted, sinceRequest, isConnected, qrCode, qrGenerated, connectionAttempts,
                   inactive, creds, pendingRender, timers, wiped>>
    /\ sockets' = Collect(makeWASocket(NewSock), sock', qrCode', pendingRender', tasks')

\* The version fetch or the auth load throws: connectToWhatsApp rethrows
\* (line 105); /api/connect answers 500, /api/qr ignores it (lines 344-349, 364).
TmpInitFail(t) ==
    /\ variant = "tmp"
    /\ tasks[t].pc = "init"
    /\ tasks' = [tasks EXCEPT ![t] = IdleTask]
    /\ last' = IF tasks[t].kind = "connect"
               THEN TmpConnectAnswer(Step("step", ""), "error")
               ELSE TmpQrAnswer(Step("step", ""), qrCode, "error")
    /\ UNCHANGED <<variant, collection, written, data, proc, phone, formatted, sinceRequest, sock, isConnected, qrCode, qrGenerated, connectionAttempts,
                   inactive, creds, sockets, pendingRender, timers, wiped>>

\* TmpTimeout whose callback rejects nothing: the request keeps waiting.
TmpTimeout_NoReject(t) ==
    /\ variant = "tmp"
    /\ tasks[t].pc = "wait"
    /\ last' = Step("timeout", "")
    /\ UNCHANGED tasks
    /\ UNCHANGED <<variant, collection, written, data, proc, phone, formatted, sinceRequest, sock, isConnected, qrCode, qrGenerated, connectionAttempts,
                   inactive, creds, pendingRender, timers, wiped>>
    /\ sockets' = Collect(sockets, sock', qrCode', pendingRender', tasks')

\* The 45 s timer of a Promise nothing settled yet fires (lines 58-60).
TmpTimeout(t) ==
    /\ variant = "tmp"
    /\ tasks[t].pc = "wait"
    /\ TmpSettle(Step("timeout", ""), tasks[t].s, "timeout", qrCode)
    /\ UNCHANGED <<variant, collection, written, data, proc, phone, formatted, sinceRequest, sock, isConnected, qrCode, qrGenerated, connectionAttempts,
                   inactive, creds, pendingRender, timers, wiped>>
    /\ sockets' = Collect(sockets, sock', qrCode', pendingRender', tasks')

\* ---- the connection.update and creds.update handlers of connectToWhatsApp ----

\* A pairing signal {qr} (lines 65-70).
TmpQrSignal(s) ==
    /\ variant = "tmp"
    /\ sockets[s].st \in {"connecting", "pairing"}
    /\ ~sockets[s].me
    /\ qrCode' = s
    /\ TmpSettle(Step("step", ""), s, "qr", s)
    /\ UNCHANGED <<variant, collection, written, data, proc, phone, formatted, sinceRequest, sock, isConnected, qrGenerated, connectionAttempts,
                   inactive, creds, pendingRender, timers, wiped>>
    /\ sockets' = Collect([sockets EXCEPT ![s].st = "pairing"],
                          sock', qrCode', pendingRender', tasks')

\* TmpClose that drops the pairing artifact whatever the reason of the close.
TmpClose_DropsArtifact(s, reason, ok) ==
    /\ variant = "tmp"
    /\ \/ Live(s)
       \/ sockets[s].st = "ended" /\ reason = "other"
    /\ isConnected' = FALSE
    /\ IF reason = "loggedOut"
       THEN /\ qrCode' = 0
            /\ creds' = IF ok THEN FALSE ELSE creds
            /\ TmpSettle(Step("close", IF ok THEN "loggedOut" ELSE "loggedOutWipeFailed"),
                         s, "closed", 0)
       ELSE /\ ok
            /\ qrCode' = 0
            /\ UNCHANGED creds
            /\ TmpSettle(Step("close", "other"), s, "closed", 0)
    /\ UNCHANGED <<variant, collection, written, data, proc, phone, formatted, sinceRequest, sock, qrGenerated, connectionAttempts,
                   inactive, pendingRender, timers, wiped>>
    /\ sockets' = Collect([sockets EXCEPT ![s].st = "closed"],
                          sock', qrCode', pendingRender', tasks')

\* connection === 'close' (lines 72-89): of a live socket for either reason,
\* of an ended one without the logged-out code.  ok: the unlink loop succeeds.
TmpClose(s, reason, ok) ==
    /\ variant = "tmp"
    /\ \/ Live(s)
       \/ sockets[s].st = "ended" /\ reason = "other"
    /\ isConnected' = FALSE
    /\ IF reason = "loggedOut"
       THEN /\ qrCode' = 0
            /\ creds' = IF ok THEN FALSE ELSE creds
            /\ TmpSettle(Step("close", IF ok THEN "loggedOut" ELSE "loggedOutWipeFailed"),
                         s, "closed", 0)
       ELSE /\ ok
            /\ UNCHANGED <<qrCode, creds>>
            /\ TmpSettle(Step("close", "other"), s, "closed", qrCode)
    /\ UNCHANGED <<variant, collection, written, data, proc, phone, formatted, sinceRequest, sock, qrGenerated, connectionAttempts,
                   inactive, pendingRender, timers, wiped>>
    /\ sockets' = Collect([sockets EXCEPT ![s].st = "closed"],
                          sock', qrCode', pendingRender', tasks')

\* connection === 'open' (lines 91-98).
TmpOpen(s) ==
    /\ variant = "tmp"
    /\ \/ sockets[s].st = "connecting" /\ sockets[s].me
       \/ sockets[s].st = "pairing"
    /\ isConnected' = TRUE
    /\ qrCode' = 0
    /\ inactive' = 0
    /\ TmpSettle(Step("open", ""), s, "connected", 0)
    /\ UNCHANGED <<variant, collection, written, data, proc, phone, formatted, sinceRequest, sock, qrGenerated, connectionAttempts,
                   creds, pendingRender, timers, wiped>>
    /\ sockets' = Collect([sockets EXCEPT ![s] = [st |-> "open", me |-> TRUE]],
                          sock', qrCode', pendingRender', tasks')

\* creds.update -> saveCreds of useMultiFileAuthState (line 101).
TmpCredsUpdate(s, ok) ==
    /\ variant = "tmp"
    /\ \/ sockets[s].st \in {"pairing", "open"}
       \/ sockets[s].st = "connecting" /\ sockets[s].me
    /\ creds' = IF ok THEN TRUE ELSE creds
    /\ last' = Step("creds", IF ok THEN "written" ELSE "storeFailed")
    /\ UNCHANGED <<variant, collection, written, data, proc, phone, formatted, sinceRequest, sock, isConnected, qrCode, qrGenerated, connectionAttempts,
                   inactive, sockets, pendingRender, timers, tasks, wiped>>

\* A minute passes without lastActivity being set and without a request;
\* beyond the timeout the comparison of line 113 no longer changes.
Tick ==
    /\ variant = "tmp"
    /\ inactive <= CONNECTION_TIMEOUT \/ sinceRequest <= CONNECTION_TIMEOUT
    /\ inactive' = IF inactive <= CONNECTION_TIMEOUT THEN inactive + 1 ELSE inactive
    /\ sinceRequest' = IF sinceRequest <= CONNECTION_TIMEOUT
                       THEN sinceRequest + 1 ELSE sinceRequest
    /\ last' = Step("step", "")
    /\ UNCHANGED <<variant, collection, written, data, proc, phone, formatted, sock, isConnected, qrCode, qrGenerated, connectionAttempts,
                   creds, sockets, pendingRender, timers, tasks, wiped>>

NextTmp ==
    \/ TmpStatus
    \/ \E t \in Tasks : TmpConnect(t)
    \/ \E t \in Tasks : TmpQr(t)
    \/ \E t \in Tasks, valid \in BOOLEAN : TmpSend(t, valid)
    \/ \E t \in Tasks, outcome \in {"exists", "missing", "throws"} : TmpLookupDone(t, outcome)
    \/ \E t \in Tasks, ok \in BOOLEAN : TmpDispatchDone(t, ok)
    \/ \E ok \in BOOLEAN : TmpClear(ok)
    \/ \E t \in Tasks : TmpInitDone(t)
    \/ \E t \in Tasks : TmpInitFail(t)
    \/ \E t \in Tasks : TmpTimeout(t)
    \/ \E s \in Socks : TmpQrSignal(s)
    \/ \E s \in Socks, reason \in {"loggedOut", "other"}, ok \in BOOLEAN : TmpClose(s, reason, ok)
    \/ \E s \in Socks : TmpOpen(s)
    \/ \E s \in Socks, ok \in BOOLEAN : TmpCredsUpdate(s, ok)
    \/ Tick

InitTmp == Init /\ variant = "tmp"
SpecTmp == InitTmp /\ [][NextTmp]_vars

\* ======================================================================
Next == NextMongo \/ NextExpress \/ NextTmp
Spec == Init /\ [][Next]_vars

\* ======================================================================
\* formatPhoneNumber (src/api/index.js 137-145 and 632-640, part_000 23-31:
\* the three copies are the same text)
\* ======================================================================

\* The longest phone argument drawn, in characters.
MaxLen == 4

\* The characters a phone argument is drawn from: the trunk digit, the two
\* digits of the country code, another digit and a character that is no digit.
Chars == {"0", "6", "2", "8", "+"}

\* \d of the regular expression.
Digit == {"0", "1", "2", "3", "4", "5", "6", "7", "8", "9"}
IsDigit(c) == c \in Digit

\* String.prototype.startsWith
startsWith(str, prefix) ==
    Len(str) >= Len(prefix) /\ SubSeq(str, 1, Len(prefix)) = prefix

\* String.prototype.substring(from) to the end of the string
substring(str, from) == SubSeq(str, from + 1, Len(str))

\* formatPhoneNumber that treats the trunk digit as any other digit.
formatPhoneNumber_KeepsTrunk(p) ==
    LET stripped == SelectSeq(p, IsDigit) IN
    IF ~startsWith(stripped, <<"6", "2">>)
    THEN <<"6", "2">> \o stripped
    ELSE stripped

\* formatPhoneNumber(phone): phone.replace(/\D/g, ''), then the two tests.
formatPhoneNumber(p) ==
    LET stripped == SelectSeq(p, IsDigit) IN
    IF startsWith(stripped, <<"0">>)
    THEN <<"6", "2">> \o substring(stripped, 1)
    ELSE IF ~startsWith(stripped, <<"6", "2">>)
    THEN <<"6", "2">> \o stripped
    ELSE stripped

\* formatPhoneNumber of the Express variant (lines 632-640).
formatPhoneNumberExpress(p) ==
    LET stripped == SelectSeq(p, IsDigit) IN
    IF startsWith(stripped, <<"0">>)
    THEN <<"6", "2">> \o substring(stripped, 1)
    ELSE IF ~startsWith(stripped, <<"6", "2">>)
    THEN <<"6", "2">> \o stripped
    ELSE stripped

\* formatPhoneNumberTmp that leaves out the replace of the non-digits.
formatPhoneNumberTmp_KeepsAll(p) ==
    IF startsWith(p, <<"0">>)
    THEN <<"6", "2">> \o substring(p, 1)
    ELSE IF ~startsWith(p, <<"6", "2">>)
    THEN <<"6", "2">> \o p
    ELSE p

\* formatPhoneNumber of the tmp variant (src/unnamed/part_000, lines 23-31).
formatPhoneNumberTmp(p) ==
    LET stripped == SelectSeq(p, IsDigit) IN
    IF startsWith(stripped, <<"0">>)
    THEN <<"6", "2">> \o substring(stripped, 1)
    ELSE IF ~startsWith(stripped, <<"6", "2">>)
    THEN <<"6", "2">> \o stripped
    ELSE stripped

\* The copy of formatPhoneNumber that the program of variant v calls.
FormatOf(v, p) ==
    CASE v = "mongo" -> formatPhoneNumber(p)
      [] v = "express" -> formatPhoneNumberExpress(p)
      [] v = "tmp" -> formatPhoneNumberTmp(p)

\* The phone arguments of the calls.
Phones == UNION {[1..n -> Chars] : n \in 0..MaxLen}

\* A call formatPhoneNumber(phone), as the send handlers make it.
FormatCall ==
    /\ formatted' = FormatOf(variant, phone)
    /\ last' = Step("format", "")
    /\ UNCHANGED <<variant, collection, written, data, proc, phone, sinceRequest, sock, isConnected, qrCode, qrGenerated,
                   connectionAttempts, inactive, creds, sockets, pendingRender,
                   timers, tasks, wiped>>

\* Module load with a send request's phone field at hand.
InitFormat ==
    /\ variant \in Variants
    /\ phone \in Phones
    /\ formatted = <<>>
    /\ sock = 0 /\ isConnected = FALSE /\ qrCode = 0 /\ qrGenerated = FALSE
    /\ connectionAttempts = 0 /\ inactive = 0 /\ creds = FALSE
    /\ sockets = [s \in Socks |-> NoSocket]
    /\ pendingRender = {} /\ timers = 0
    /\ tasks = [t \in Tasks |-> IdleTask]
    /\ wiped = FALSE /\ sinceRequest = 0
    /\ proc = "running"
    /\ collection = EmptyCollection
    /\ written = [p \in Pairs |-> "never"]
    /\ data = NoData
    /\ last = Step("init", "")

NextFormat == FormatCall
SpecFormat == InitFormat /\ [][NextFormat]_vars

\* ======================================================================
\* The claims
\* ======================================================================

\* A send request answered in this state that was received while Disconnected,
\* passed validation and met no error of the version fetch or of the store.
SendAnsweredDisconnected ==
    /\ last.op = "send" /\ last.code # 0 /\ last.disc0
    /\ last.detail \notin {"validation", "initError"}

\* A send request received while Disconnected has called onWhatsApp or sendMessage.
SendDelegatedDisconnected ==
    \E t \in Tasks : tasks[t].kind = "send" /\ tasks[t].disc0
                     /\ tasks[t].pc \in {"lookup", "dispatch"}

\* C1 as stated: in every variant a send-message request received while the
\* session is Disconnected ends with 503 NotConnected and never calls
\* onWhatsApp or sendMessage.
C1_AlwaysNotConnected ==
    /\ SendAnsweredDisconnected => last.code = 503 /\ last.success = "false"
    /\ ~SendDelegatedDisconnected

\* C2 as stated: at most one Session Handle exists: never more than one socket
\* made by makeWASocket that has not yet closed or been ended.
C2_AtMostOneSession ==
    Cardinality(LiveSockets) <= 1

\* A socket is made in the step.
SocketCreated(s) == sockets[s].st = "none" /\ sockets'[s].st = "connecting"

LoggedOutClose(l) == l.op = "close" /\ l.detail = "loggedOut"

\* C3 as stated: once a logged-out close has been handled (its wipe, where
\* there is one, not failing) the store holds no Credential Record, and the
\* connection attempt that follows starts without credentials.
C3_LogoutWipesCredentials ==
    [][ /\ LoggedOutClose(last') => ~creds'
        /\ LoggedOutClose(last) =>
             \A s \in Socks : SocketCreated(s) => ~sockets'[s].me
      ]_vars

ExhaustedClose(l) == l.op = "close" /\ l.detail \in {"exhausted", "exhaustedWipeFailed"}

\* C4 as stated, its bound: after a retry-exhausted wipe there is one fresh
\* attempt and the cycle does not come round again: while no open signal
\* arrives no further retry-exhausted wipe happens.
C4_WipeNotRepeated ==
    [][ wiped => ~(last'.op = "close" /\ last'.detail = "exhausted")
      ]_vars

\* C4 amended: in the Express variant the handler of a non-logout close that
\* finds the retry counter at or above the maximum resets the counter to zero
\* and wipes the credentials once; when the wipe succeeds it schedules exactly
\* one reconnect, when it throws it schedules none.  The reset lets the cycle
\* come round again: this is no bound on the number of reconnects or wipes.
C4_ExhaustedWipesOnce ==
    [][ variant = "express" /\ last'.op = "close" =>
          /\ ExhaustedClose(last') <=>
               (connectionAttempts >= MAX_RETRY_ATTEMPTS
                  /\ last'.detail \notin {"loggedOut", "loggedOutWipeFailed"})
          /\ ExhaustedClose(last') =>
               /\ connectionAttempts' = 0
               /\ tasks' = tasks
               /\ \A s \in Socks : ~SocketCreated(s)
               /\ IF last'.detail = "exhausted"
                  THEN ~creds' /\ timers' = timers + 1
                  ELSE creds' = creds /\ timers' = timers
      ]_vars

\* C4 witness: a non-logout close found the counter exhausted and wiped.
C4_Witness ==
    variant = "express" /\ last.op = "close" /\ last.detail = "exhausted"

ClearSucceeded(l) == l.op = "clear" /\ l.success = "true"

\* C5: a clear request that reports success leaves the socket ended and the
\* reference dropped, no Credential Record, the retry counter at zero and no
\* pairing artifact, and a status request handled right after it reports
\* connected false.
C5_ClearTearsDown ==
    [][ /\ ClearSucceeded(last') =>
             /\ sock' = 0
             /\ sock # 0 => sockets'[sock].st \in {"ended", "closed", "none"}
             /\ ~isConnected'
             /\ ~creds'
             /\ connectionAttempts' = 0
             /\ qrCode' = 0
             /\ last'.code = 200
        /\ ClearSucceeded(last) /\ last'.op = "status" => ~last'.connected
      ]_vars

\* C5 witness: a clear issued while Connected reported success.
C5_Witness ==
    ClearSucceeded(last) /\ last.detail = "wasConnected" /\ sock = 0 /\ ~isConnected

\* C6 as stated: an entry point that starts a connection (the timer callbacks
\* of the Mongo and Express variants, /api/connect of the tmp variant), called
\* while the session is connected, makes no socket, starts nothing and leaves
\* the connected flag, the pairing artifact and the store as they are.
C6_ConnectedIsReturned ==
    [][ (sock # 0 /\ isConnected /\ ~KeepAliveExpires
           /\ last'.op \in {"timer", "connect"})
        => UNCHANGED <<tasks, sockets, sock, isConnected, qrCode, creds,
                       connectionAttempts>>
      ]_vars

\* The request of /api/connect that awaited the Promise is answered in the step.
ConnectSettled(t) ==
    tasks[t].kind = "connect" /\ tasks[t].pc = "wait" /\ tasks'[t].pc # "wait"

SpecTmpFair == SpecTmp /\ \A t \in Tasks : WF_vars(TmpTimeout(t))

\* C8: every request of the tmp variant that waits on a connection attempt is
\* answered in the end, the timer being assumed to fire.
C8_WaitEnds ==
    \A t \in Tasks : (tasks[t].pc = "wait") ~> (tasks[t].pc # "wait")

\* C8 witness: a request waits on the Promise of a socket that gave no signal.
C8_Witness ==
    \E t \in Tasks : tasks[t].pc = "wait" /\ sockets[tasks[t].s].st = "connecting"

\* C9 as stated: a status request changes nothing of the session.
C9_StatusChangesNothing ==
    [][ last'.op = "status" =>
          /\ UNCHANGED <<sock, isConnected, qrCode, connectionAttempts>>
          /\ LiveSockets' = LiveSockets
      ]_vars

\* C9 amended: a status request never initiates a connection (no socket is
\* made, no attempt or timer started) and changes neither the pairing
\* artifact, the retry counter nor the store; in the Mongo and Express
\* variants it leaves the socket reference, the connected flag and the live
\* sockets as they are; in the tmp variant the keepAlive() that precedes every
\* route ends a connected session idle for more than 5 minutes (reference
\* null, flag false) and otherwise leaves them as they are.
C9_StatusNeverConnects ==
    [][ last'.op = "status" =>
          /\ UNCHANGED <<tasks, timers, qrCode, connectionAttempts, creds>>
          /\ \A s \in Socks : ~SocketCreated(s)
          /\ IF variant = "tmp" /\ KeepAliveExpires
             THEN sock' = 0 /\ ~isConnected' /\ LiveSockets' = LiveSockets \ {sock}
                  /\ ~last'.connected
             ELSE UNCHANGED <<sock, isConnected, sockets>>
                  /\ last'.connected = isConnected
      ]_vars

\* C9 witness: a status request of the tmp variant ended the idle session.
C9_Witness ==
    variant = "tmp" /\ last.op = "status" /\ last.detail = "keepAliveEnded"

LogoutCloseStep == last'.op = "close" /\ last'.detail \in {"loggedOut", "loggedOutWipeFailed"}

\* A call of the connect function that no request made passes its guard and
\* goes on to make a socket.
AutoAttemptStarts == \E t \in Tasks : tasks[t].kind # "auto" /\ tasks'[t].kind = "auto"

\* C10 as stated: in the Mongo and Express variants the handler of a
\* logged-out close schedules no timer, starts no attempt and makes no socket,
\* and no socket is made after it until a request asks for one: in the Mongo
\* variant, where only the close handler sets a timer, the step that follows
\* the close does not start an automatic connection attempt.
C10_NoReconnectAfterLogout ==
    [][ (variant = "mongo" \/ variant = "express") =>
          /\ LogoutCloseStep =>
                  /\ timers' = timers
                  /\ tasks' = tasks
                  /\ \A s \in Socks : ~SocketCreated(s)
          /\ (variant = "mongo" /\ last.op = "close" /\ last.detail = "loggedOut")
                => ~AutoAttemptStarts
      ]_vars

\* The handler of a close that was not a logout set the timer of a reconnect
\* in this step (Express).
ReconnectScheduled ==
    /\ variant = "express"
    /\ last'.op = "close"
    /\ last'.detail \in {"retry", "exhausted"}

\* C11 as stated: in the Express variant the delay before the reconnect that a
\* non-logout close schedules is always greater than zero, never exceeds 15
\* seconds, and grows exponentially with the attempts already made: one more
\* attempt multiplies the delay by a constant factor above one.
C11_BackoffExponentialPositive ==
    [][ ReconnectScheduled =>
          /\ last'.delay > 0
          /\ last'.delay <= 15000
          /\ last'.detail = "retry" =>
                \E f \in 2..4 :
                    ReconnectDelay(connectionAttempts + 1) = f * last'.delay
      ]_vars

\* C11 amended: in the Express variant the delay before the reconnect that a
\* non-logout close schedules is 5000 ms times the retry counter read when the
\* close is handled, while that counter is below the maximum of 3: it grows
\* linearly, is 0 when the counter is 0, is at most 10 seconds and so never
\* exceeds 15 seconds; with the counter at the maximum or above it the
\* reconnect after the wipe is scheduled 5 seconds later.
C11_BackoffLinear ==
    [][ ReconnectScheduled =>
          /\ last'.delay >= 0
          /\ last'.delay <= 15000
          /\ last'.detail = "retry" =>
                /\ connectionAttempts < MAX_RETRY_ATTEMPTS
                /\ last'.delay = 5000 * connectionAttempts
                /\ last'.delay <= 10000
          /\ last'.detail = "exhausted" =>
                /\ connectionAttempts >= MAX_RETRY_ATTEMPTS
                /\ last'.delay = 5000
      ]_vars

\* C11 witness: a close was handled after two attempts and scheduled the
\* reconnect ten seconds later.
C11_Witness ==
    /\ variant = "express"
    /\ last.op = "close" /\ last.detail = "retry"
    /\ connectionAttempts = 2 /\ last.delay = 10000

\* The start of a status, connect, qr or send request of the tmp variant took
\* the connected flag from true to false: keepAlive ended the session.
KeepAliveEnds ==
    /\ variant = "tmp"
    /\ last'.op \in {"status", "connect", "qr", "send"}
    /\ isConnected /\ ~isConnected'

\* C12 as stated: in the tmp variant keepAlive ends a connected session only
\* when no request was handled in the 5 minutes before: a session that
\* received a status, qr, connect or send request less than 5 minutes ago is
\* never ended.
C12_IdleSinceLastRequest ==
    [][ KeepAliveEnds => sinceRequest >= CONNECTION_TIMEOUT ]_vars

\* C12 amended: in the tmp variant keepAlive ends a connected session only
\* when more than 5 minutes passed since the last-activity time, and that time
\* is refreshed only by an open signal, by a connect request that finds the
\* session connected and by a send that was dispatched successfully; status
\* and qr requests and sends that fail leave it as it is.
C12_IdleSinceLastActivity ==
    [][ variant = "tmp" =>
          /\ KeepAliveEnds => /\ inactive > CONNECTION_TIMEOUT
                              /\ sock # 0 /\ sock' = 0
                              /\ last'.ended
          /\ inactive' < inactive =>
                /\ inactive' = 0
                /\ \/ last'.op = "open"
                   \/ last'.op = "connect" /\ last'.detail = "existing"
                   \/ last'.op = "send" /\ last'.code = 200
          /\ last'.op \in {"status", "qr"} \/ (last'.op = "send" /\ last'.code # 200)
                => inactive' = inactive
      ]_vars

\* C12 witness: keepAlive ended the connected session at the start of a qr
\* request.
C12_Witness ==
    /\ variant = "tmp"
    /\ last.op = "qr" /\ last.ended
    /\ sock = 0 /\ ~isConnected

\* A request of the tmp variant is received: the step runs keepAlive and the
\* route's handler to its response or its first await.
TmpRequest ==
    /\ variant = "tmp"
    /\ \/ last'.op \in {"status", "connect", "qr", "clear"}
       \/ last'.op = "send" /\ last'.detail \in {"validation", "notConnected", "lookup"}

\* The step starts a connection attempt: a call of connectToWhatsApp passes
\* its guard and goes on to make a socket.
AttemptStarts == \E t \in Tasks : tasks[t].pc # "init" /\ tasks'[t].pc = "init"

\* C13 as stated: in the tmp variant the request whose keepAlive ended the
\* idle session starts a new connection attempt whichever route it targets,
\* send included, and is not answered NotConnected.
C13_NextRequestReconnects ==
    [][ TmpRequest /\ last'.ended /\ last'.op # "clear" =>
          /\ AttemptStarts
          /\ last'.code # 503
      ]_vars

\* C13 amended: in the tmp variant a request handled while the session is not
\* connected, the request whose keepAlive ended the idle session included,
\* starts a new connection attempt only on the connect route and on the qr
\* route when no pairing artifact is stored; a send request is answered 400
\* for missing fields and 503 NotConnected otherwise, a status request reports
\* connected false, a qr request with an artifact stored returns it, and none
\* of these starts an attempt.
C13_OnlyConnectAndQrReconnect ==
    [][ TmpRequest /\ ~isConnected' /\ last'.op # "clear" =>
          /\ last'.ended => sock' = 0
          /\ CASE last'.op = "connect" -> AttemptStarts /\ last'.code = 0
                [] last'.op = "qr" /\ qrCode = 0 -> AttemptStarts /\ last'.code = 0
                [] last'.op = "qr" /\ qrCode # 0 ->
                       /\ tasks' = tasks
                       /\ last'.code = 200 /\ last'.qrAvailable
                [] last'.op = "send" ->
                       /\ tasks' = tasks
                       /\ last'.success = "false"
                       /\ last'.code = IF last'.detail = "validation" THEN 400 ELSE 503
                [] last'.op = "status" ->
                       /\ tasks' = tasks
                       /\ last'.code = 200 /\ ~last'.connected
      ]_vars

\* C13 witness: keepAlive ended the idle session at the start of a send
\* request, which was answered 503.
C13_Witness ==
    /\ variant = "tmp"
    /\ last.op = "send" /\ last.ended /\ last.code = 503
    /\ sock = 0 /\ ~isConnected

\* C14 as stated: in every reachable state of every variant the connected
\* flag being true implies that no pairing artifact is stored, under any
\* interleaving of pairing and open signals and of the image rendering of the
\* Mongo variant.
C14_ConnectedHasNoArtifact ==
    isConnected => qrCode = 0

\* C15 as stated: every credential-update signal results, in the step that
\* handles it, in a write of the updated credentials of the socket that
\* emitted it to the store, whatever the shared socket reference is then:
\* null after a close, or a newer socket.
C15_EveryUpdateWritten ==
    [][ last'.op = "creds" => last'.detail \in {"written", "storeFailed"} ]_vars

\* The request of task t received the answer of its recipient lookup in this step.
LookupAnswered(t) == tasks[t].pc = "lookup" /\ tasks'[t].pc # "lookup"

\* C16: in every variant a send request whose recipient lookup reports the
\* destination not registered is answered 404 with success false and goes no
\* further, so it dispatches nothing; a request reaches the dispatch of its
\* message only from its own lookup, for the destination it normalized, and
\* only when that lookup reported the destination registered; and a send is
\* answered as sent only from the dispatch.
C16_UnregisteredNotSent ==
    [][ \A t \in Tasks :
          /\ LookupAnswered(t) /\ last'.result = "missing" =>
                /\ last'.op = "send" /\ last'.code = 404 /\ last'.success = "false"
                /\ tasks'[t] = IdleTask
          /\ tasks'[t].pc = "dispatch" /\ tasks[t].pc # "dispatch" =>
                /\ LookupAnswered(t) /\ last'.result = "exists"
                /\ tasks[t].kind = "send" /\ tasks'[t].kind = "send"
                /\ last'.code = 0
          /\ last'.op = "send" /\ last'.code = 404 =>
                \E u \in Tasks : LookupAnswered(u) /\ last'.result = "missing"
          /\ last'.op = "send" /\ last'.code = 200 =>
                \E u \in Tasks : tasks[u].pc = "dispatch" /\ tasks'[u] = IdleTask
      ]_vars

\* C16 witness: a send request that found the session connected was answered
\* 404 when its lookup reported the destination not registered.
C16_Witness ==
    /\ last.op = "send" /\ last.code = 404 /\ last.result = "missing"
    /\ ~last.disc0
    /\ \A t \in Tasks : tasks[t].pc # "dispatch"

\* A send request that lacked the destination or the message body was
\* received in this step.
InvalidSend == last'.op = "send" /\ ~last'.valid

\* C17 as stated: in every variant a send request lacking the destination or
\* the message body is answered 400 with success false in the step that
\* receives it, starts no connection attempt, no lookup and no send, and
\* leaves the session state as it was.
C17_InvalidSendChangesNothing ==
    [][ InvalidSend =>
          /\ last'.code = 400 /\ last'.success = "false"
          /\ UNCHANGED <<tasks, timers, sock, isConnected, sockets, qrCode, creds,
                         connectionAttempts, inactive>>
      ]_vars

\* C17 amended: in every variant a send request lacking the destination or
\* the message body is answered 400 with success false in the step that
\* receives it and starts no connection attempt, no lookup and no send; the
\* Mongo and Express variants leave the session state as it was, and the tmp
\* variant, whose keepAlive runs before the routing, ends a connected session
\* whose last activity is more than 5 minutes old and otherwise leaves the
\* session state as it was.
C17_InvalidSendDelegatesNothing ==
    [][ InvalidSend =>
          /\ last'.code = 400 /\ last'.success = "false"
          /\ UNCHANGED <<tasks, timers, qrCode, creds, connectionAttempts, inactive>>
          /\ \A s \in Socks : ~SocketCreated(s)
          /\ IF variant = "tmp" /\ sock # 0 /\ isConnected /\ inactive > CONNECTION_TIMEOUT
             THEN /\ sock' = 0 /\ ~isConnected'
                  /\ last'.ended
             ELSE UNCHANGED <<sock, isConnected, sockets>>
      ]_vars

\* C17 witness: a send request lacking a field was answered 400 by the tmp
\* variant after keepAlive ended the idle session.
C17_Witness ==
    /\ variant = "tmp"
    /\ last.op = "send" /\ ~last.valid /\ last.code = 400 /\ last.ended
    /\ sock = 0 /\ ~isConnected

\* The reference normalization, step by step: what is left of a string when
\* every character that is no digit is removed.
RECURSIVE DigitsOf(_)
DigitsOf(str) ==
    IF str = <<>> THEN <<>>
    ELSE IF Head(str) \in Digit THEN <<Head(str)>> \o DigitsOf(Tail(str))
    ELSE DigitsOf(Tail(str))

\* The reference normalization: a leading trunk digit 0 is replaced by 62;
\* digits that begin with 62 stay as they are; anything else gets 62 in front.
ReferenceNormalization(str) ==
    LET d == DigitsOf(str) IN
    CASE Len(d) >= 1 /\ d[1] = "0" -> <<"6", "2">> \o Tail(d)
      [] Len(d) >= 2 /\ d[1] = "6" /\ d[2] = "2" -> d
      [] OTHER -> <<"6", "2">> \o d

\* C18: what formatPhoneNumber returns for a phone string is the reference
\* normalization of that string; and for a string that begins with the trunk
\* digit 0 it is what formatPhoneNumber returns for the string with that digit
\* replaced by the country code 62.
C18_FormatAgreesWithReference ==
    last.op = "format" =>
        /\ formatted = ReferenceNormalization(phone)
        /\ (Len(phone) >= 1 /\ phone[1] = "0") =>
               formatted = formatPhoneNumber(<<"6", "2">> \o Tail(phone))

\* C18 witness: a phone string with a leading trunk digit and a character
\* that is no digit was formatted.
C18_Witness ==
    /\ last.op = "format"
    /\ phone = <<"0", "8", "+", "2">>
    /\ formatted = <<"6", "2", "8", "2">>

\* C19 as stated: in the Express variant every call of connectToWhatsApp
\* adds exactly one to the retry counter, and the counter is zero right after
\* the handling of an open signal and right after a clear that succeeded.
C19_CounterStepsAndResets ==
    [][ variant = "express" =>
          /\ last'.op = "timer" => connectionAttempts' = connectionAttempts + 1
          /\ last'.op = "open" => connectionAttempts' = 0
          /\ ClearSucceeded(last') => connectionAttempts' = 0
      ]_vars

\* C20: in every variant the connected flag goes from false to true only in
\* the step that handles an open signal, of a socket that was connecting or
\* pairing and is open afterwards; and the step that handles a close signal
\* leaves the flag false, whatever the state was, and the socket closed.
C20_OnlyOpenConnects ==
    [][ /\ ~isConnected /\ isConnected' =>
              /\ last'.op = "open"
              /\ \E s \in Socks : /\ sockets[s].st \in {"connecting", "pairing"}
                                  /\ sockets'[s].st = "open"
        /\ last'.op = "close" =>
              /\ ~isConnected'
              /\ \E s \in Socks : /\ sockets[s].st \notin {"none", "closed"}
                                  /\ sockets'[s].st \in {"none", "closed"}
      ]_vars

\* C20 witness: a close signal was handled while the flag was true and
\* another socket is open: the flag is false.
C20_Witness ==
    /\ last.op = "close"
    /\ ~isConnected
    /\ \E s \in Socks : sockets[s].st = "open"

EndsInError ==
    /\ last'.code # 0
    /\ \/ last'.result \in {"timeout", "error", "missing"}
       \/ last'.detail \in {"notConnected", "initError", "error", "wipeFailed"}
       \/ ~last'.valid

\* C22 as stated: in every variant a request that ends in ConnectTimeout,
\* NotConnected, RecipientNotFound, ValidationError or a store error is
\* answered with success false, never with success true, and the step that
\* answers it leaves the request with nothing more to do: no attempt, lookup
\* or dispatch is started again for it.
C22_ErrorsAnswerFalse ==
    [][ EndsInError =>
          /\ last'.success = "false"
          /\ \A t \in Tasks : tasks'[t] # tasks[t] => tasks'[t] = IdleTask
      ]_vars

\* The tmp qr route answers after the connection attempt it awaited failed.
TmpQrAfterFailure ==
    variant = "tmp" /\ last'.route = "qr" /\ last'.result \in {"timeout", "error"}

\* C22 amended: a request that ends in ConnectTimeout, NotConnected,
\* RecipientNotFound, ValidationError or a store error is answered with
\* success false and an error or message text, and nothing is started again
\* for it; except that the qr route of the tmp variant ignores the failure of
\* the attempt it awaited and answers by the artifact stored at that time:
\* 200 with success true and the artifact when there is one, 503 with success
\* false and a message when there is none.
C22_ErrorsAnswerFalseButTmpQr ==
    [][ EndsInError =>
          /\ \A t \in Tasks : tasks'[t] # tasks[t] => tasks'[t] = IdleTask
          /\ IF TmpQrAfterFailure /\ qrCode # 0
             THEN last'.code = 200 /\ last'.success = "true" /\ last'.qrAvailable
             ELSE /\ last'.success = "false" /\ last'.message
                  /\ last'.code \in {400, 404, 500, 503}
      ]_vars

\* C22 witness: the qr route of the tmp variant answered 503 with success
\* false after the attempt it awaited timed out.
C22_Witness ==
    /\ variant = "tmp"
    /\ last.route = "qr" /\ last.result = "timeout"
    /\ last.code = 503 /\ last.success = "false" /\ last.message

\* A qr request is answered in this step: at once, or (Mongo, tmp) when the
\* connection attempt it awaited is over.
QrAnswered == last'.code # 0 /\ (last'.op = "qr" \/ last'.route = "qr")

\* The answer carries the artifact with success true / carries a message with
\* success false and no artifact.
QrGiven == last'.success = "true" /\ last'.qrAvailable
QrRefused == last'.success = "false" /\ last'.message /\ ~last'.qrAvailable

\* C23 as stated: a qr request is answered with success true and the pairing
\* artifact exactly when an artifact is stored when the response is built
\* and, in the tmp variant, the session is not connected; otherwise it is
\* answered with success false, a message and no artifact.
C23_QrExactlyWhenStored ==
    [][ QrAnswered =>
          IF qrCode' # 0 /\ (variant = "tmp" => ~isConnected')
          THEN QrGiven
          ELSE QrRefused
      ]_vars

\* C23 amended: as stated, with two provisos.  A qr request of the Mongo
\* variant whose connection attempt threw is answered 500 with success false
\* and an error text even when an artifact is stored.  The tmp variant tests
\* the connected flag when the request is received, before the attempt it may
\* await: a request that awaited an attempt is answered by the stored
\* artifact alone.
C23_QrWhenStoredUnlessFailed ==
    [][ QrAnswered =>
          CASE variant = "mongo" /\ last'.code = 500 ->
                    QrRefused /\ last'.detail = "error"
            [] variant = "tmp" /\ last'.op = "qr" ->
                    IF qrCode' # 0 /\ ~isConnected' THEN QrGiven ELSE QrRefused
            [] OTHER ->
                    IF qrCode' # 0 THEN QrGiven ELSE QrRefused
      ]_vars

\* C23 witness: a qr request of the Mongo variant was answered 500 while an
\* artifact was stored.
C23_Witness ==
    /\ variant = "mongo"
    /\ last.op = "qr" /\ last.code = 500 /\ last.success = "false"
    /\ qrCode # 0

\* C24: in the Express variant a SIGTERM or SIGINT makes shutdown call
\* sock.end() on the current socket, if there is one, and the process exits
\* with code 0 whether that call returns or throws: a signal's handler exits
\* in its own step only when it found no socket, and otherwise in a later
\* step, after its close attempt and the await of it; and once the close has
\* been attempted the exit follows.
C24_EndBeforeExit ==
    /\ [][ (proc # "exit0" /\ proc' = "exit0") =>
              \/ sock = 0 /\ last'.detail = "noSocket"
              \/ proc \in {"ended", "endThrew"} /\ last'.detail = proc
         ]_vars
    /\ [][ (last'.op = "signal" /\ last'.detail = "ended") =>
              sockets'[sock].st \notin {"connecting", "pairing", "open"}
         ]_vars
    /\ (proc \in {"ended", "endThrew"}) ~> (proc = "exit0")

\* C24 witness: the process has exited after a sock.end() that threw.
C24_Witness ==
    /\ variant = "express"
    /\ proc = "exit0" /\ last.op = "exit" /\ last.detail = "endThrew"
    /\ sock # 0

\* No connection attempt has made a socket yet, or none is left of those made.
NoSocketMade == \A s \in Socks : sockets[s].st = "none"

\* C25: in every variant a status request handled while no connection attempt
\* has made a socket reports the session as not connected (connected false;
\* status 'disconnected' in the Mongo variant), qrAvailable false and
\* botNumber null.
C25_FirstStatusAllFalse ==
    [][ (last'.op = "status" /\ NoSocketMade) =>
          /\ last'.code = 200
          /\ ~last'.connected /\ ~last'.qrAvailable /\ ~last'.botNumber
          /\ NoSocketMade'
      ]_vars

\* C25 witness: the first thing the Mongo variant did was to answer a status
\* request.
C25_Witness ==
    /\ variant = "mongo"
    /\ last.op = "status" /\ last.code = 200
    /\ NoSocketMade /\ \A t \in Tasks : tasks[t] = IdleTask
    /\ ~last.connected /\ ~last.qrAvailable /\ ~last.botNumber

\* Task t's request calls sock.sendMessage in this step.
Dispatches(t) == tasks[t].pc # "dispatch" /\ tasks'[t].pc = "dispatch"

\* C26: in every variant a send request calls the message dispatch at most
\* once.  A request that waits for the answer of its dispatch does nothing
\* but wait or end, whatever the answer: it never looks up or dispatches
\* again.  A request is answered success true only by the answer of its one
\* dispatch, and one answered with a validation, not-connected or
\* recipient-not-found error had made no dispatch.
C26_NoDeliveryRetry ==
    [][ \A t \in Tasks :
          /\ tasks[t].pc = "dispatch" =>
                tasks'[t] = tasks[t] \/ tasks'[t] = IdleTask
          /\ Dispatches(t) => tasks[t].pc = "lookup" /\ tasks[t].kind = "send"
          /\ (last'.op = "send" /\ last'.success = "true") =>
                \E u \in Tasks : tasks[u].pc = "dispatch" /\ tasks'[u] = IdleTask
          /\ (last'.op = "send" /\ last'.code # 0
                /\ last'.detail \in {"validation", "notConnected", "notFound"}) =>
                /\ tasks[t].pc # "dispatch" \/ tasks'[t] = tasks[t]
                /\ ~Dispatches(t)
      ]_vars

\* C26 witness: a send request was answered 500 when its one dispatch failed,
\* and nothing is left of the request.
C26_Witness ==
    /\ last.op = "send" /\ last.code = 500 /\ last.detail = "error" /\ last.result = ""
    /\ \A t \in Tasks : tasks[t] = IdleTask

\* C27: in the Express variant a connection attempt that throws answers no
\* request and ends no process: its catch only logs.  With the counter below
\* MAX_RETRY_ATTEMPTS it sets exactly one timer, of 10 seconds, and leaves the
\* counter; with the counter at the maximum or above it sets the counter to
\* zero and sets no timer.  The socket reference and the connected flag are
\* left as they were.
C27_ThrownAttemptRetriesOrGivesUp ==
    [][ (last'.op = "initfail") =>
          /\ variant = "express"
          /\ last'.code = 0 /\ last'.success = "absent"
          /\ proc' = proc
          /\ sock' = sock /\ isConnected' = isConnected
          /\ \E t \in Tasks : /\ tasks[t].kind = "auto" /\ tasks[t].pc = "init"
                              /\ tasks' = [tasks EXCEPT ![t] = IdleTask]
          /\ IF connectionAttempts < MAX_RETRY_ATTEMPTS
             THEN /\ timers' = timers + 1
                  /\ last'.delay = 10000
                  /\ connectionAttempts' = connectionAttempts
             ELSE /\ timers' = timers
                  /\ last'.delay = -1
                  /\ connectionAttempts' = 0
      ]_vars

\* C27 witness: an attempt threw with the counter at the maximum; the counter
\* is zero again and no timer is pending.
C27_Witness ==
    /\ last.op = "initfail" /\ last.detail = "giveup"
    /\ connectionAttempts = 0 /\ timers = 0

\* C28 as stated: whenever the connected flag is true, the shared socket
\* reference is non-null and refers to a socket that has emitted an open
\* signal and has not since closed.
C28_ConnectedMeansOpenSocket ==
    isConnected => sock # 0 /\ sockets[sock].st = "open"

\* C29 as stated: events of a socket that is no longer the current one never
\* damage the current session: whenever some socket is open, the connected
\* flag is true and the shared socket reference points to that socket.
C29_OpenSocketIsCurrent ==
    \A s \in Socks : sockets[s].st = "open" => isConnected /\ sock = s

\* C30 as stated: in the Express variant the retry counter never exceeds
\* MAX_RETRY_ATTEMPTS in any reachable state.
C30_CounterAtMostMax ==
    variant = "express" => connectionAttempts <= MAX_RETRY_ATTEMPTS

\* C31 as stated: in the Express variant a successful clear request leads to
\* exactly one new connection attempt, the one of the restart timer that the
\* clear handler sets: the close signal of the socket that the clear ended
\* sets no reconnect timer of its own.
C31_ClearStartsOneAttempt ==
    [][ \A s \in Socks :
          (variant = "express" /\ last'.op = "close"
             /\ sockets[s].st = "ended" /\ sockets'[s].st # "ended") =>
          timers' = timers
      ]_vars

\* A connection attempt is pending: a call of the connect routine has not yet
\* made its socket, or a socket made has neither opened nor closed.
AttemptPending ==
    \/ \E t \in Tasks : tasks[t].pc \in {"init", "wait"}
    \/ \E s \in Socks : sockets[s].st \in {"connecting", "pairing"}

\* C32 as stated: in the Mongo and the Express variant a reconnect timer that
\* fires while the session is connected, or while another connection attempt
\* is pending, creates no additional socket: the callback starts no call that
\* goes on to makeWASocket.
C32_LateReconnectMakesNoSocket ==
    [][ (last'.op = "timer" /\ ((sock # 0 /\ isConnected) \/ AttemptPending)) =>
          tasks' = tasks
      ]_vars

\* A step of the Express variant that handles a disconnect for a reason other
\* than logout, or an attempt that threw.
DisconnectHandled ==
    /\ variant = "express"
    /\ \/ last'.op = "initfail"
       \/ last'.op = "close" /\ last'.detail \notin {"loggedOut", "loggedOutWipeFailed"}

\* After the step a connection attempt is in progress or a timer is pending.
ReconnectUnderWay ==
    \/ timers' > 0
    \/ \E t \in Tasks : tasks'[t].pc = "init"

\* A pending timer is never cancelled: it stays pending until it fires, and
\* the callback that fires starts a connection attempt.
TimerKept ==
    [][ timers' < timers =>
          /\ last'.op = "timer" /\ timers' = timers - 1
          /\ variant = "express" => \E t \in Tasks : tasks[t] = IdleTask /\ tasks'[t].pc = "init"
      ]_vars

\* With a timer pending and no call waiting for I/O, a timer fires: no HTTP
\* request is needed for it.
TimerFires ==
    (variant = "express" /\ timers > 0 /\ \A t \in Tasks : tasks[t] = IdleTask)
        ~> (last.op = "timer")

\* C33 as stated: in the Express variant the service never gets stuck after
\* an unexpected disconnect: whenever the session is disconnected for a
\* reason other than logout, an attempt is in progress or a timer is pending,
\* and under fair timers a pending timer leads to a new attempt.
C33_NeverStuck ==
    /\ [][ DisconnectHandled => ReconnectUnderWay ]_vars
    /\ TimerKept
    /\ TimerFires

\* C33 amended: the same, except for the two ways in which the code gives up:
\* an attempt that threw with the counter at MAX_RETRY_ATTEMPTS or above
\* (lines 624-627), and a close in the max-attempts branch whose wipe of the
\* auth folder failed (lines 594-596).  These set no timer, and they are the
\* only ones: every other such step adds a timer.  A timer set is kept until
\* it fires, and it fires without any HTTP request.
C33_StuckOnlyAfterGivingUp ==
    /\ [][ DisconnectHandled =>
             IF last'.detail \in {"giveup", "exhaustedWipeFailed"}
             THEN timers' = timers /\ connectionAttempts >= MAX_RETRY_ATTEMPTS
             ELSE timers' = timers + 1
         ]_vars
    /\ TimerKept
    /\ TimerFires

\* C33 witness: an attempt threw with the counter at the maximum; nothing is
\* pending, no socket is alive and the session is not connected.
C33_Witness ==
    /\ variant = "express"
    /\ last.op = "initfail" /\ last.detail = "giveup"
    /\ timers = 0 /\ ~isConnected
    /\ \A t \in Tasks : tasks[t] = IdleTask
    /\ \A s \in Socks : sockets[s].st = "none"

\* A clear request is answered success false in this step.
ClearFailed == last'.op = "clear" /\ last'.success = "false"

\* C34 as stated: a clear request that fails with a store error leaves the
\* in-memory session state as it was, in the Express and the tmp variant: no
\* socket is ended, and the socket reference, the connected flag, the pairing
\* artifact and the retry counter are unchanged.
C34_FailedClearChangesNothing ==
    [][ ClearFailed =>
          /\ sock' = sock /\ isConnected' = isConnected
          /\ qrCode' = qrCode /\ qrGenerated' = qrGenerated
          /\ connectionAttempts' = connectionAttempts
          /\ \A s \in Socks : Live(s) => sockets'[s] = sockets[s]
      ]_vars

\* C34 amended: that holds of the Express handler, which wipes the folder
\* first.  The tmp handler ends the socket and resets the socket reference,
\* the connected flag and the pairing artifact before it wipes, so after a
\* failed clear of the tmp variant the reference is null, the flag false, the
\* artifact gone and the socket the reference held is no longer live; the
\* credentials that the wipe did not remove stay.  No timer is set by either.
C34_FailedClearKeepsExpressOnly ==
    [][ ClearFailed =>
          /\ variant \in {"express", "tmp"}
          /\ timers' = timers
          /\ connectionAttempts' = connectionAttempts
          /\ IF variant = "express"
             THEN /\ sock' = sock /\ isConnected' = isConnected
                  /\ qrCode' = qrCode /\ qrGenerated' = qrGenerated
                  /\ sockets' = sockets
             ELSE /\ sock' = 0 /\ ~isConnected' /\ qrCode' = 0
                  /\ sock # 0 => sockets'[sock].st \notin {"connecting", "pairing", "open"}
      ]_vars

\* C34 witness: a clear of the tmp variant failed while the session was
\* connected: the session is torn down and the credentials are still stored.
C34_Witness ==
    /\ variant = "tmp"
    /\ last.op = "clear" /\ last.success = "false" /\ last.code = 500
    /\ sock = 0 /\ ~isConnected /\ creds
    /\ \E s \in Socks : sockets[s].st = "ended" /\ sockets[s].me

\* A status or qr request is answered in this step and the answer presents
\* the pairing artifact (qrAvailable true, or the artifact itself).
ArtifactPresented ==
    /\ last'.code # 0 /\ last'.qrAvailable
    /\ last'.op \in {"status", "qr"} \/ last'.route = "qr"

C36_FormatIdempotentAndEqual ==
    (last.op = "format") =>
        /\ \A i \in 1..Len(formatted) : formatted[i] \in Digit
        /\ startsWith(formatted, <<"6", "2">>)
        /\ FormatOf(variant, formatted) = formatted
        /\ \A v \in Variants : FormatOf(v, phone) = formatted

\* C36 witness: the tmp copy was called with an argument that holds a
\* character that is no digit and, without it, begins with the trunk digit.
C36_Witness ==
    /\ last.op = "format" /\ variant = "tmp"
    /\ \E i \in 1..Len(phone) : phone[i] \notin Digit
    /\ startsWith(SelectSeq(phone, IsDigit), <<"0">>)
    /\ Len(formatted) > 2

\* What keys.get returns for one category and id: the value read when it is
\* truthy, or "absent".
ReadOf(coll, p) ==
    LET value == readData(coll, KeyOf(p[1], p[2])) IN
    IF Truthy(value) THEN value ELSE "absent"

\* The keys.get of this step returned for id what was last written under its
\* category and id: that value when it is not empty, and nothing when nothing
\* or null was written.
GetReturnsWritten(id) ==
    LET w == written[<<data'.type, id>>] IN
    /\ w \in {"x", "y"} => id \in DOMAIN data'.result /\ data'.result[id] = w
    /\ w \in {"never", "null"} => id \notin DOMAIN data'.result

\* Two categories and ids make the same document key.
SameKey(p, q) == KeyOf(p[1], p[2]) = KeyOf(q[1], q[2])
SharesKey(p) == \E q \in Pairs : q # p /\ SameKey(p, q)

\* C37 as stated: the Mongo credential store round-trips key material: what
\* keys.get returns for a category and id is the non-empty value keys.set
\* last wrote under them, an id never written or last written with null is
\* absent from the result, and a keys.set changes what is read only for the
\* categories and ids it writes.
C37_StoreRoundTrips ==
    /\ [][ (last'.op = "keysGet") => \A id \in data'.ids : GetReturnsWritten(id) ]_vars
    /\ [][ (last'.op = "keysSet") =>
              \A p \in Pairs \ last'.wrote :
                 ReadOf(collection', p) = ReadOf(collection, p)
         ]_vars

\* What the store does keep: it holds one document per key
\* `${category}-${id}`, so the round trip holds of a category and id whose key
\* no other category and id makes; a keys.set changes what is read only for
\* the categories and ids whose key is the key of an entry it writes; and two
\* that make the same key are always read alike.
StoreRoundTripsByKey ==
    /\ [][ (last'.op = "keysGet") =>
              \A id \in data'.ids :
                 ~SharesKey(<<data'.type, id>>) => GetReturnsWritten(id)
         ]_vars
    /\ [][ (last'.op = "keysSet") =>
              \A p \in Pairs :
                 (\A q \in last'.wrote : ~SameKey(p, q))
                    => ReadOf(collection', p) = ReadOf(collection, p)
         ]_vars
    /\ [](\A p, q \in Pairs : SameKey(p, q) => ReadOf(collection, p) = ReadOf(collection, q))

\* C37 witness: a keys.get returned, for a category and id written with a
\* value and never since, the value written under another category and id
\* that makes the same key.
C37_Witness ==
    /\ last.op = "keysGet"
    /\ \E id \in data.ids :
          /\ id \in DOMAIN data.result
          /\ written[<<data.type, id>>] \in {"x", "y"}
          /\ data.result[id] # written[<<data.type, id>>]
    /\ \E id \in data.ids : ~SharesKey(<<data.type, id>>) /\ id \in DOMAIN data.result
====
